---------------------------- MODULE Spec2Model ----------------------------
(***************************************************************************)
(* Device-model layer of the Philips CoAP air purifier integration:        *)
(* the state projections and command handlers of PhilipsGenericFanBase     *)
(* (devices/base.py), the sequenced overrides of PhilipsAC1214             *)
(* (devices/legacy.py), the per-class preset and speed tables of the       *)
(* three generations, and the filter alert tracker                         *)
(* PhilipsFilterAlertSensor (binary_sensor.py).                            *)
(*                                                                         *)
(* Encoding of Python values.  A raw status value is a TLA+ string: the    *)
(* Python str s is written "s", the Python int n is written "i<n>" (so     *)
(* that the str "1" and the int 1 stay different), and the absence of a    *)
(* key (dict.get returning None) is the value None.  Keys of the raw       *)
(* status and preset names are written with the names they have in         *)
(* const.PhilipsApi and const.PresetMode.  A status pattern (a dict) is    *)
(* the sequence of its (key, value) items in insertion order.              *)
(***************************************************************************)
EXTENDS Integers, Sequences, FiniteSets, TLC

None == "None"

\* percentage=None of async_turn_on; a requested percentage is in 0..100
NoPercentage == -1

\* const.PhilipsApi.POWER_MAP, OSCILLATION_MAP2, OSCILLATION_MAP3, keyed by
\* SWITCH_ON / SWITCH_OFF
POWER_MAP == [on |-> "1", off |-> "0"]

OSCILLATION_MAP2 == [on |-> "OSCILLATION_MAP2.on", off |-> "OSCILLATION_MAP2.off"]

OSCILLATION_MAP3 == [on |-> "OSCILLATION_MAP3.on", off |-> "OSCILLATION_MAP3.off"]

-----------------------------------------------------------------------------
(* AVAILABLE_PRESET_MODES and AVAILABLE_SPEEDS as declared, in declaration *)
(* order                                                                   *)

PhilipsAC1214_AVAILABLE_PRESET_MODES ==
   <<
      [name |-> "AUTO", pattern |-> <<<<"MODE", "P">>>>],
      [name |-> "ALLERGEN", pattern |-> <<<<"MODE", "A">>>>],
      [name |-> "NIGHT", pattern |-> <<<<"MODE", "N">>>>],
      [name |-> "SPEED_1", pattern |-> <<<<"MODE", "M">>, <<"SPEED", "1">>>>],
      [name |-> "SPEED_2", pattern |-> <<<<"MODE", "M">>, <<"SPEED", "2">>>>],
      [name |-> "SPEED_3", pattern |-> <<<<"MODE", "M">>, <<"SPEED", "3">>>>],
      [name |-> "TURBO", pattern |-> <<<<"MODE", "M">>, <<"SPEED", "t">>>>]
   >>

PhilipsAC1214_AVAILABLE_SPEEDS ==
   <<
      [name |-> "NIGHT", pattern |-> <<<<"MODE", "N">>>>],
      [name |-> "SPEED_1", pattern |-> <<<<"MODE", "M">>, <<"SPEED", "1">>>>],
      [name |-> "SPEED_2", pattern |-> <<<<"MODE", "M">>, <<"SPEED", "2">>>>],
      [name |-> "SPEED_3", pattern |-> <<<<"MODE", "M">>, <<"SPEED", "3">>>>],
      [name |-> "TURBO", pattern |-> <<<<"MODE", "M">>, <<"SPEED", "t">>>>]
   >>

PhilipsAC2729_AVAILABLE_PRESET_MODES ==
   <<
      [name |-> "AUTO", pattern |-> <<<<"POWER", "1">>, <<"MODE", "P">>>>],
      [name |-> "ALLERGEN", pattern |-> <<<<"POWER", "1">>, <<"MODE", "A">>>>],
      [name |-> "NIGHT", pattern |-> <<<<"POWER", "1">>, <<"MODE", "S">>, <<"SPEED", "s">>>>],
      [name |-> "SPEED_1", pattern |-> <<<<"POWER", "1">>, <<"MODE", "M">>, <<"SPEED", "1">>>>],
      [name |-> "SPEED_2", pattern |-> <<<<"POWER", "1">>, <<"MODE", "M">>, <<"SPEED", "2">>>>],
      [name |-> "SPEED_3", pattern |-> <<<<"POWER", "1">>, <<"MODE", "M">>, <<"SPEED", "3">>>>],
      [name |-> "TURBO", pattern |-> <<<<"POWER", "1">>, <<"MODE", "M">>, <<"SPEED", "t">>>>]
   >>

PhilipsAC2729_AVAILABLE_SPEEDS ==
   <<
      [name |-> "NIGHT", pattern |-> <<<<"POWER", "1">>, <<"MODE", "S">>, <<"SPEED", "s">>>>],
      [name |-> "SPEED_1", pattern |-> <<<<"POWER", "1">>, <<"MODE", "M">>, <<"SPEED", "1">>>>],
      [name |-> "SPEED_2", pattern |-> <<<<"POWER", "1">>, <<"MODE", "M">>, <<"SPEED", "2">>>>],
      [name |-> "SPEED_3", pattern |-> <<<<"POWER", "1">>, <<"MODE", "M">>, <<"SPEED", "3">>>>],
      [name |-> "TURBO", pattern |-> <<<<"POWER", "1">>, <<"MODE", "M">>, <<"SPEED", "t">>>>]
   >>

\* PhilipsAC2889: the same tables are declared or inherited by PhilipsAC3259.
PhilipsAC2889_AVAILABLE_PRESET_MODES ==
   <<
      [name |-> "AUTO", pattern |-> <<<<"POWER", "1">>, <<"MODE", "P">>>>],
      [name |-> "ALLERGEN", pattern |-> <<<<"POWER", "1">>, <<"MODE", "A">>>>],
      [name |-> "BACTERIA", pattern |-> <<<<"POWER", "1">>, <<"MODE", "B">>>>],
      [name |-> "SLEEP", pattern |-> <<<<"POWER", "1">>, <<"MODE", "M">>, <<"SPEED", "s">>>>],
      [name |-> "SPEED_1", pattern |-> <<<<"POWER", "1">>, <<"MODE", "M">>, <<"SPEED", "1">>>>],
      [name |-> "SPEED_2", pattern |-> <<<<"POWER", "1">>, <<"MODE", "M">>, <<"SPEED", "2">>>>],
      [name |-> "SPEED_3", pattern |-> <<<<"POWER", "1">>, <<"MODE", "M">>, <<"SPEED", "3">>>>],
      [name |-> "TURBO", pattern |-> <<<<"POWER", "1">>, <<"MODE", "M">>, <<"SPEED", "t">>>>]
   >>

PhilipsAC2889_AVAILABLE_SPEEDS ==
   <<
      [name |-> "SLEEP", pattern |-> <<<<"POWER", "1">>, <<"MODE", "M">>, <<"SPEED", "s">>>>],
      [name |-> "SPEED_1", pattern |-> <<<<"POWER", "1">>, <<"MODE", "M">>, <<"SPEED", "1">>>>],
      [name |-> "SPEED_2", pattern |-> <<<<"POWER", "1">>, <<"MODE", "M">>, <<"SPEED", "2">>>>],
      [name |-> "SPEED_3", pattern |-> <<<<"POWER", "1">>, <<"MODE", "M">>, <<"SPEED", "3">>>>],
      [name |-> "TURBO", pattern |-> <<<<"POWER", "1">>, <<"MODE", "M">>, <<"SPEED", "t">>>>]
   >>

\* PhilipsAC29xx: the same tables are declared or inherited by PhilipsAC2936, PhilipsAC2939, PhilipsAC2958, PhilipsAC2959.
PhilipsAC29xx_AVAILABLE_PRESET_MODES ==
   <<
      [name |-> "AUTO", pattern |-> <<<<"POWER", "1">>, <<"MODE", "AG">>>>],
      [name |-> "SLEEP", pattern |-> <<<<"POWER", "1">>, <<"MODE", "S">>>>],
      [name |-> "GENTLE", pattern |-> <<<<"POWER", "1">>, <<"MODE", "GT">>>>],
      [name |-> "TURBO", pattern |-> <<<<"POWER", "1">>, <<"MODE", "T">>>>]
   >>

PhilipsAC29xx_AVAILABLE_SPEEDS ==
   <<
      [name |-> "SLEEP", pattern |-> <<<<"POWER", "1">>, <<"MODE", "S">>>>],
      [name |-> "GENTLE", pattern |-> <<<<"POWER", "1">>, <<"MODE", "GT">>>>],
      [name |-> "TURBO", pattern |-> <<<<"POWER", "1">>, <<"MODE", "T">>>>]
   >>

\* PhilipsAC303x: the same tables are declared or inherited by PhilipsAC3033, PhilipsAC3036, PhilipsAC3039, PhilipsAC385x51, PhilipsAC385451, PhilipsAC385851, PhilipsAC385883, PhilipsAC385886, PhilipsAC4236.
PhilipsAC303x_AVAILABLE_PRESET_MODES ==
   <<
      [name |-> "AUTO", pattern |-> <<<<"POWER", "1">>, <<"MODE", "AG">>>>],
      [name |-> "SLEEP", pattern |-> <<<<"POWER", "1">>, <<"MODE", "S">>, <<"SPEED", "s">>>>],
      [name |-> "SLEEP_ALLERGY", pattern |-> <<<<"POWER", "1">>, <<"MODE", "AS">>, <<"SPEED", "as">>>>],
      [name |-> "SPEED_1", pattern |-> <<<<"POWER", "1">>, <<"MODE", "M">>, <<"SPEED", "1">>>>],
      [name |-> "SPEED_2", pattern |-> <<<<"POWER", "1">>, <<"MODE", "M">>, <<"SPEED", "2">>>>],
      [name |-> "TURBO", pattern |-> <<<<"POWER", "1">>, <<"MODE", "T">>, <<"SPEED", "t">>>>]
   >>

PhilipsAC303x_AVAILABLE_SPEEDS ==
   <<
      [name |-> "SLEEP", pattern |-> <<<<"POWER", "1">>, <<"MODE", "S">>, <<"SPEED", "s">>>>],
      [name |-> "SPEED_1", pattern |-> <<<<"POWER", "1">>, <<"MODE", "M">>, <<"SPEED", "1">>>>],
      [name |-> "SPEED_2", pattern |-> <<<<"POWER", "1">>, <<"MODE", "M">>, <<"SPEED", "2">>>>],
      [name |-> "TURBO", pattern |-> <<<<"POWER", "1">>, <<"MODE", "T">>, <<"SPEED", "t">>>>]
   >>

\* PhilipsAC305x: the same tables are declared or inherited by PhilipsAC3055, PhilipsAC3059, PhilipsAC385x50, PhilipsAC385450, PhilipsAC385850.
PhilipsAC305x_AVAILABLE_PRESET_MODES ==
   <<
      [name |-> "AUTO", pattern |-> <<<<"POWER", "1">>, <<"MODE", "AG">>>>],
      [name |-> "SLEEP", pattern |-> <<<<"POWER", "1">>, <<"MODE", "S">>, <<"SPEED", "s">>>>],
      [name |-> "SPEED_1", pattern |-> <<<<"POWER", "1">>, <<"MODE", "M">>, <<"SPEED", "1">>>>],
      [name |-> "SPEED_2", pattern |-> <<<<"POWER", "1">>, <<"MODE", "M">>, <<"SPEED", "2">>>>],
      [name |-> "TURBO", pattern |-> <<<<"POWER", "1">>, <<"MODE", "T">>, <<"SPEED", "t">>>>]
   >>

PhilipsAC305x_AVAILABLE_SPEEDS ==
   <<
      [name |-> "SLEEP", pattern |-> <<<<"POWER", "1">>, <<"MODE", "S">>, <<"SPEED", "s">>>>],
      [name |-> "SPEED_1", pattern |-> <<<<"POWER", "1">>, <<"MODE", "M">>, <<"SPEED", "1">>>>],
      [name |-> "SPEED_2", pattern |-> <<<<"POWER", "1">>, <<"MODE", "M">>, <<"SPEED", "2">>>>],
      [name |-> "TURBO", pattern |-> <<<<"POWER", "1">>, <<"MODE", "T">>, <<"SPEED", "t">>>>]
   >>

PhilipsAC3829_AVAILABLE_PRESET_MODES ==
   <<
      [name |-> "AUTO", pattern |-> <<<<"POWER", "1">>, <<"MODE", "P">>>>],
      [name |-> "ALLERGEN", pattern |-> <<<<"POWER", "1">>, <<"MODE", "A">>>>],
      [name |-> "SLEEP", pattern |-> <<<<"POWER", "1">>, <<"MODE", "S">>, <<"SPEED", "s">>>>],
      [name |-> "SPEED_1", pattern |-> <<<<"POWER", "1">>, <<"MODE", "M">>, <<"SPEED", "1">>>>],
      [name |-> "SPEED_2", pattern |-> <<<<"POWER", "1">>, <<"MODE", "M">>, <<"SPEED", "2">>>>],
      [name |-> "SPEED_3", pattern |-> <<<<"POWER", "1">>, <<"MODE", "M">>, <<"SPEED", "3">>>>],
      [name |-> "TURBO", pattern |-> <<<<"POWER", "1">>, <<"MODE", "M">>, <<"SPEED", "t">>>>]
   >>

PhilipsAC3829_AVAILABLE_SPEEDS ==
   <<
      [name |-> "SLEEP", pattern |-> <<<<"POWER", "1">>, <<"MODE", "S">>, <<"SPEED", "s">>>>],
      [name |-> "SPEED_1", pattern |-> <<<<"POWER", "1">>, <<"MODE", "M">>, <<"SPEED", "1">>>>],
      [name |-> "SPEED_2", pattern |-> <<<<"POWER", "1">>, <<"MODE", "M">>, <<"SPEED", "2">>>>],
      [name |-> "SPEED_3", pattern |-> <<<<"POWER", "1">>, <<"MODE", "M">>, <<"SPEED", "3">>>>],
      [name |-> "TURBO", pattern |-> <<<<"POWER", "1">>, <<"MODE", "M">>, <<"SPEED", "t">>>>]
   >>

PhilipsAC3836_AVAILABLE_PRESET_MODES ==
   <<
      [name |-> "AUTO", pattern |-> <<<<"POWER", "1">>, <<"MODE", "AG">>, <<"SPEED", "1">>>>],
      [name |-> "SLEEP", pattern |-> <<<<"POWER", "1">>, <<"MODE", "S">>, <<"SPEED", "s">>>>],
      [name |-> "TURBO", pattern |-> <<<<"POWER", "1">>, <<"MODE", "T">>, <<"SPEED", "t">>>>]
   >>

PhilipsAC3836_AVAILABLE_SPEEDS ==
   <<
      [name |-> "SLEEP", pattern |-> <<<<"POWER", "1">>, <<"MODE", "S">>, <<"SPEED", "s">>>>],
      [name |-> "TURBO", pattern |-> <<<<"POWER", "1">>, <<"MODE", "T">>, <<"SPEED", "t">>>>]
   >>

\* PhilipsAC4558: the same tables are declared or inherited by PhilipsAC4550.
PhilipsAC4558_AVAILABLE_PRESET_MODES ==
   <<
      [name |-> "AUTO", pattern |-> <<<<"POWER", "1">>, <<"MODE", "AG">>, <<"SPEED", "a">>>>],
      [name |-> "GAS", pattern |-> <<<<"POWER", "1">>, <<"MODE", "F">>, <<"SPEED", "a">>>>],
      [name |-> "POLLUTION", pattern |-> <<<<"POWER", "1">>, <<"MODE", "P">>, <<"SPEED", "a">>>>],
      [name |-> "ALLERGEN", pattern |-> <<<<"POWER", "1">>, <<"MODE", "A">>, <<"SPEED", "a">>>>]
   >>

PhilipsAC4558_AVAILABLE_SPEEDS ==
   <<
      [name |-> "SLEEP", pattern |-> <<<<"POWER", "1">>, <<"SPEED", "s">>>>],
      [name |-> "SPEED_1", pattern |-> <<<<"POWER", "1">>, <<"SPEED", "1">>>>],
      [name |-> "SPEED_2", pattern |-> <<<<"POWER", "1">>, <<"SPEED", "2">>>>],
      [name |-> "TURBO", pattern |-> <<<<"POWER", "1">>, <<"SPEED", "t">>>>]
   >>

\* PhilipsAC5659: the same tables are declared or inherited by PhilipsAC5660.
PhilipsAC5659_AVAILABLE_PRESET_MODES ==
   <<
      [name |-> "POLLUTION", pattern |-> <<<<"POWER", "1">>, <<"MODE", "P">>>>],
      [name |-> "ALLERGEN", pattern |-> <<<<"POWER", "1">>, <<"MODE", "A">>>>],
      [name |-> "BACTERIA", pattern |-> <<<<"POWER", "1">>, <<"MODE", "B">>>>],
      [name |-> "SLEEP", pattern |-> <<<<"POWER", "1">>, <<"MODE", "M">>, <<"SPEED", "s">>>>],
      [name |-> "SPEED_1", pattern |-> <<<<"POWER", "1">>, <<"MODE", "M">>, <<"SPEED", "1">>>>],
      [name |-> "SPEED_2", pattern |-> <<<<"POWER", "1">>, <<"MODE", "M">>, <<"SPEED", "2">>>>],
      [name |-> "SPEED_3", pattern |-> <<<<"POWER", "1">>, <<"MODE", "M">>, <<"SPEED", "3">>>>],
      [name |-> "TURBO", pattern |-> <<<<"POWER", "1">>, <<"MODE", "M">>, <<"SPEED", "t">>>>]
   >>

PhilipsAC5659_AVAILABLE_SPEEDS ==
   <<
      [name |-> "SLEEP", pattern |-> <<<<"POWER", "1">>, <<"MODE", "M">>, <<"SPEED", "s">>>>],
      [name |-> "SPEED_1", pattern |-> <<<<"POWER", "1">>, <<"MODE", "M">>, <<"SPEED", "1">>>>],
      [name |-> "SPEED_2", pattern |-> <<<<"POWER", "1">>, <<"MODE", "M">>, <<"SPEED", "2">>>>],
      [name |-> "SPEED_3", pattern |-> <<<<"POWER", "1">>, <<"MODE", "M">>, <<"SPEED", "3">>>>],
      [name |-> "TURBO", pattern |-> <<<<"POWER", "1">>, <<"MODE", "M">>, <<"SPEED", "t">>>>]
   >>

\* PhilipsAC085011: the same tables are declared or inherited by PhilipsAC085020, PhilipsAC085031, PhilipsAC085041, PhilipsAC085070, PhilipsAC085085.
PhilipsAC085011_AVAILABLE_PRESET_MODES ==
   <<
      [name |-> "AUTO", pattern |-> <<<<"NEW_POWER", "ON">>, <<"NEW_MODE", "Auto General">>>>],
      [name |-> "TURBO", pattern |-> <<<<"NEW_POWER", "ON">>, <<"NEW_MODE", "Turbo">>>>],
      [name |-> "SLEEP", pattern |-> <<<<"NEW_POWER", "ON">>, <<"NEW_MODE", "Sleep">>>>]
   >>

PhilipsAC085011_AVAILABLE_SPEEDS ==
   <<
      [name |-> "SLEEP", pattern |-> <<<<"NEW_POWER", "ON">>, <<"NEW_MODE", "Sleep">>>>],
      [name |-> "TURBO", pattern |-> <<<<"NEW_POWER", "ON">>, <<"NEW_MODE", "Turbo">>>>]
   >>

PhilipsAC1715_AVAILABLE_PRESET_MODES ==
   <<
      [name |-> "AUTO", pattern |-> <<<<"NEW_POWER", "ON">>, <<"NEW_MODE", "Auto General">>>>],
      [name |-> "SPEED_1", pattern |-> <<<<"NEW_POWER", "ON">>, <<"NEW_MODE", "Gentle/Speed 1">>>>],
      [name |-> "SPEED_2", pattern |-> <<<<"NEW_POWER", "ON">>, <<"NEW_MODE", "Speed 2">>>>],
      [name |-> "TURBO", pattern |-> <<<<"NEW_POWER", "ON">>, <<"NEW_MODE", "Turbo">>>>],
      [name |-> "SLEEP", pattern |-> <<<<"NEW_POWER", "ON">>, <<"NEW_MODE", "Sleep">>>>]
   >>

PhilipsAC1715_AVAILABLE_SPEEDS ==
   <<
      [name |-> "SLEEP", pattern |-> <<<<"NEW_POWER", "ON">>, <<"NEW_MODE", "Sleep">>>>],
      [name |-> "SPEED_1", pattern |-> <<<<"NEW_POWER", "ON">>, <<"NEW_MODE", "Gentle/Speed 1">>>>],
      [name |-> "SPEED_2", pattern |-> <<<<"NEW_POWER", "ON">>, <<"NEW_MODE", "Speed 2">>>>],
      [name |-> "TURBO", pattern |-> <<<<"NEW_POWER", "ON">>, <<"NEW_MODE", "Turbo">>>>]
   >>

\* PhilipsAC085011C: the same tables are declared or inherited by PhilipsAC085020C, PhilipsAC085031C, PhilipsAC085041C, PhilipsAC085070C, PhilipsAC085081.
PhilipsAC085011C_AVAILABLE_PRESET_MODES ==
   <<
      [name |-> "AUTO", pattern |-> <<<<"NEW2_POWER", "i1">>, <<"NEW2_MODE_B", "i0">>>>],
      [name |-> "TURBO", pattern |-> <<<<"NEW2_POWER", "i1">>, <<"NEW2_MODE_B", "i18">>>>],
      [name |-> "SLEEP", pattern |-> <<<<"NEW2_POWER", "i1">>, <<"NEW2_MODE_B", "i17">>>>]
   >>

PhilipsAC085011C_AVAILABLE_SPEEDS ==
   <<
      [name |-> "SLEEP", pattern |-> <<<<"NEW2_POWER", "i1">>, <<"NEW2_MODE_B", "i17">>>>],
      [name |-> "TURBO", pattern |-> <<<<"NEW2_POWER", "i1">>, <<"NEW2_MODE_B", "i18">>>>]
   >>

\* PhilipsAC0950: the same tables are declared or inherited by PhilipsAC0951, PhilipsAC3420, PhilipsAC3421.
PhilipsAC0950_AVAILABLE_PRESET_MODES ==
   <<
      [name |-> "AUTO", pattern |-> <<<<"NEW2_POWER", "i1">>, <<"NEW2_MODE_B", "i0">>>>],
      [name |-> "TURBO", pattern |-> <<<<"NEW2_POWER", "i1">>, <<"NEW2_MODE_B", "i18">>>>],
      [name |-> "MEDIUM", pattern |-> <<<<"NEW2_POWER", "i1">>, <<"NEW2_MODE_B", "i19">>>>],
      [name |-> "SLEEP", pattern |-> <<<<"NEW2_POWER", "i1">>, <<"NEW2_MODE_B", "i17">>>>]
   >>

PhilipsAC0950_AVAILABLE_SPEEDS ==
   <<
      [name |-> "SLEEP", pattern |-> <<<<"NEW2_POWER", "i1">>, <<"NEW2_MODE_B", "i17">>>>],
      [name |-> "MEDIUM", pattern |-> <<<<"NEW2_POWER", "i1">>, <<"NEW2_MODE_B", "i19">>>>],
      [name |-> "TURBO", pattern |-> <<<<"NEW2_POWER", "i1">>, <<"NEW2_MODE_B", "i18">>>>]
   >>

\* PhilipsAC32xx: the same tables are declared or inherited by PhilipsAC3210, PhilipsAC3220, PhilipsAC3221, PhilipsAC4220, PhilipsAC4221.
PhilipsAC32xx_AVAILABLE_PRESET_MODES ==
   <<
      [name |-> "AUTO", pattern |-> <<<<"NEW2_POWER", "i1">>, <<"NEW2_MODE_B", "i0">>>>],
      [name |-> "MEDIUM", pattern |-> <<<<"NEW2_POWER", "i1">>, <<"NEW2_MODE_B", "i19">>>>],
      [name |-> "TURBO", pattern |-> <<<<"NEW2_POWER", "i1">>, <<"NEW2_MODE_B", "i18">>>>],
      [name |-> "SLEEP", pattern |-> <<<<"NEW2_POWER", "i1">>, <<"NEW2_MODE_B", "i17">>>>]
   >>

PhilipsAC32xx_AVAILABLE_SPEEDS ==
   <<
      [name |-> "SPEED_1", pattern |-> <<<<"NEW2_POWER", "i1">>, <<"NEW2_MODE_B", "i1">>>>],
      [name |-> "SPEED_2", pattern |-> <<<<"NEW2_POWER", "i1">>, <<"NEW2_MODE_B", "i2">>>>],
      [name |-> "SPEED_3", pattern |-> <<<<"NEW2_POWER", "i1">>, <<"NEW2_MODE_B", "i3">>>>],
      [name |-> "SPEED_4", pattern |-> <<<<"NEW2_POWER", "i1">>, <<"NEW2_MODE_B", "i4">>>>],
      [name |-> "SPEED_5", pattern |-> <<<<"NEW2_POWER", "i1">>, <<"NEW2_MODE_B", "i5">>>>]
   >>

PhilipsAC3737_AVAILABLE_PRESET_MODES ==
   <<
      [name |-> "AUTO", pattern |-> <<<<"NEW2_POWER", "i1">>, <<"NEW2_MODE_A", "i2">>, <<"NEW2_MODE_B", "i0">>>>],
      [name |-> "SLEEP", pattern |-> <<<<"NEW2_POWER", "i1">>, <<"NEW2_MODE_A", "i2">>, <<"NEW2_MODE_B", "i17">>>>],
      [name |-> "TURBO", pattern |-> <<<<"NEW2_POWER", "i1">>, <<"NEW2_MODE_A", "i3">>, <<"NEW2_MODE_B", "i18">>>>]
   >>

PhilipsAC3737_AVAILABLE_SPEEDS ==
   <<
      [name |-> "SLEEP", pattern |-> <<<<"NEW2_POWER", "i1">>, <<"NEW2_MODE_A", "i2">>, <<"NEW2_MODE_B", "i17">>>>],
      [name |-> "SPEED_1", pattern |-> <<<<"NEW2_POWER", "i1">>, <<"NEW2_MODE_A", "i2">>, <<"NEW2_MODE_B", "i1">>>>],
      [name |-> "SPEED_2", pattern |-> <<<<"NEW2_POWER", "i1">>, <<"NEW2_MODE_A", "i2">>, <<"NEW2_MODE_B", "i2">>>>],
      [name |-> "TURBO", pattern |-> <<<<"NEW2_POWER", "i1">>, <<"NEW2_MODE_A", "i3">>, <<"NEW2_MODE_B", "i18">>>>]
   >>

\* PhilipsAMFxxx: the same tables are declared or inherited by PhilipsAMF765, PhilipsAMF870.
PhilipsAMFxxx_AVAILABLE_PRESET_MODES ==
   <<
      [name |-> "AUTO", pattern |-> <<<<"NEW2_POWER", "i1">>, <<"NEW2_MODE_B", "i0">>>>],
      [name |-> "SLEEP", pattern |-> <<<<"NEW2_POWER", "i1">>, <<"NEW2_MODE_B", "i17">>>>],
      [name |-> "TURBO", pattern |-> <<<<"NEW2_POWER", "i1">>, <<"NEW2_MODE_B", "i18">>>>]
   >>

PhilipsAMFxxx_AVAILABLE_SPEEDS ==
   <<
      [name |-> "SPEED_1", pattern |-> <<<<"NEW2_POWER", "i1">>, <<"NEW2_MODE_B", "i1">>>>],
      [name |-> "SPEED_2", pattern |-> <<<<"NEW2_POWER", "i1">>, <<"NEW2_MODE_B", "i2">>>>],
      [name |-> "SPEED_3", pattern |-> <<<<"NEW2_POWER", "i1">>, <<"NEW2_MODE_B", "i3">>>>],
      [name |-> "SPEED_4", pattern |-> <<<<"NEW2_POWER", "i1">>, <<"NEW2_MODE_B", "i4">>>>],
      [name |-> "SPEED_5", pattern |-> <<<<"NEW2_POWER", "i1">>, <<"NEW2_MODE_B", "i5">>>>],
      [name |-> "SPEED_6", pattern |-> <<<<"NEW2_POWER", "i1">>, <<"NEW2_MODE_B", "i6">>>>],
      [name |-> "SPEED_7", pattern |-> <<<<"NEW2_POWER", "i1">>, <<"NEW2_MODE_B", "i7">>>>],
      [name |-> "SPEED_8", pattern |-> <<<<"NEW2_POWER", "i1">>, <<"NEW2_MODE_B", "i8">>>>],
      [name |-> "SPEED_9", pattern |-> <<<<"NEW2_POWER", "i1">>, <<"NEW2_MODE_B", "i9">>>>],
      [name |-> "SPEED_10", pattern |-> <<<<"NEW2_POWER", "i1">>, <<"NEW2_MODE_B", "i10">>>>]
   >>

PhilipsCX3120_AVAILABLE_PRESET_MODES ==
   <<
      [name |-> "AUTO_PLUS", pattern |-> <<<<"NEW2_POWER", "i1">>, <<"NEW2_MODE_A", "i3">>, <<"NEW2_MODE_B", "i0">>>>],
      [name |-> "VENTILATION", pattern |-> <<<<"NEW2_POWER", "i1">>, <<"NEW2_MODE_A", "i1">>, <<"NEW2_MODE_B", "i-127">>>>],
      [name |-> "LOW", pattern |-> <<<<"NEW2_POWER", "i1">>, <<"NEW2_MODE_A", "i3">>, <<"NEW2_MODE_B", "i66">>>>],
      [name |-> "MEDIUM", pattern |-> <<<<"NEW2_POWER", "i1">>, <<"NEW2_MODE_A", "i3">>, <<"NEW2_MODE_B", "i67">>>>],
      [name |-> "HIGH", pattern |-> <<<<"NEW2_POWER", "i1">>, <<"NEW2_MODE_A", "i3">>, <<"NEW2_MODE_B", "i65">>>>]
   >>

PhilipsCX3120_AVAILABLE_SPEEDS ==
   <<
      [name |-> "LOW", pattern |-> <<<<"NEW2_POWER", "i1">>, <<"NEW2_MODE_A", "i3">>, <<"NEW2_MODE_B", "i66">>>>],
      [name |-> "MEDIUM", pattern |-> <<<<"NEW2_POWER", "i1">>, <<"NEW2_MODE_A", "i3">>, <<"NEW2_MODE_B", "i67">>>>],
      [name |-> "HIGH", pattern |-> <<<<"NEW2_POWER", "i1">>, <<"NEW2_MODE_A", "i3">>, <<"NEW2_MODE_B", "i65">>>>]
   >>

PhilipsCX5120_AVAILABLE_PRESET_MODES ==
   <<
      [name |-> "AUTO", pattern |-> <<<<"NEW2_POWER", "i1">>, <<"NEW2_MODE_A", "i3">>, <<"NEW2_MODE_B", "i0">>>>],
      [name |-> "VENTILATION", pattern |-> <<<<"NEW2_POWER", "i1">>, <<"NEW2_MODE_A", "i1">>, <<"NEW2_MODE_B", "i-127">>>>],
      [name |-> "LOW", pattern |-> <<<<"NEW2_POWER", "i1">>, <<"NEW2_MODE_A", "i3">>, <<"NEW2_MODE_B", "i66">>>>],
      [name |-> "HIGH", pattern |-> <<<<"NEW2_POWER", "i1">>, <<"NEW2_MODE_A", "i3">>, <<"NEW2_MODE_B", "i65">>>>]
   >>

PhilipsCX5120_AVAILABLE_SPEEDS ==
   <<
      [name |-> "LOW", pattern |-> <<<<"NEW2_POWER", "i1">>, <<"NEW2_MODE_A", "i3">>, <<"NEW2_MODE_B", "i66">>>>],
      [name |-> "HIGH", pattern |-> <<<<"NEW2_POWER", "i1">>, <<"NEW2_MODE_A", "i3">>, <<"NEW2_MODE_B", "i65">>>>]
   >>

PhilipsCX3550_AVAILABLE_PRESET_MODES ==
   <<
      [name |-> "SPEED_1", pattern |-> <<<<"NEW2_POWER", "i1">>, <<"NEW2_MODE_A", "i1">>, <<"NEW2_MODE_B", "i1">>, <<"NEW2_MODE_C", "i1">>>>],
      [name |-> "SPEED_2", pattern |-> <<<<"NEW2_POWER", "i1">>, <<"NEW2_MODE_A", "i1">>, <<"NEW2_MODE_B", "i2">>, <<"NEW2_MODE_C", "i2">>>>],
      [name |-> "SPEED_3", pattern |-> <<<<"NEW2_POWER", "i1">>, <<"NEW2_MODE_A", "i1">>, <<"NEW2_MODE_B", "i3">>, <<"NEW2_MODE_C", "i3">>>>],
      [name |-> "NATURAL", pattern |-> <<<<"NEW2_POWER", "i1">>, <<"NEW2_MODE_A", "i1">>, <<"NEW2_MODE_B", "i-126">>, <<"NEW2_MODE_C", "i1">>>>],
      [name |-> "SLEEP", pattern |-> <<<<"NEW2_POWER", "i1">>, <<"NEW2_MODE_A", "i1">>, <<"NEW2_MODE_B", "i17">>, <<"NEW2_MODE_C", "i2">>>>]
   >>

PhilipsCX3550_AVAILABLE_SPEEDS ==
   <<
      [name |-> "SPEED_1", pattern |-> <<<<"NEW2_POWER", "i1">>, <<"NEW2_MODE_A", "i1">>, <<"NEW2_MODE_B", "i1">>, <<"NEW2_MODE_C", "i1">>>>],
      [name |-> "SPEED_2", pattern |-> <<<<"NEW2_POWER", "i1">>, <<"NEW2_MODE_A", "i1">>, <<"NEW2_MODE_B", "i2">>, <<"NEW2_MODE_C", "i2">>>>],
      [name |-> "SPEED_3", pattern |-> <<<<"NEW2_POWER", "i1">>, <<"NEW2_MODE_A", "i1">>, <<"NEW2_MODE_B", "i3">>, <<"NEW2_MODE_C", "i3">>>>]
   >>

\* PhilipsHU1509: the same tables are declared or inherited by PhilipsHU1510, PhilipsHU5710.
PhilipsHU1509_AVAILABLE_PRESET_MODES ==
   <<
      [name |-> "AUTO", pattern |-> <<<<"NEW2_POWER", "i1">>, <<"NEW2_MODE_B", "i0">>>>],
      [name |-> "SLEEP", pattern |-> <<<<"NEW2_POWER", "i1">>, <<"NEW2_MODE_B", "i17">>>>],
      [name |-> "MEDIUM", pattern |-> <<<<"NEW2_POWER", "i1">>, <<"NEW2_MODE_B", "i19">>>>],
      [name |-> "HIGH", pattern |-> <<<<"NEW2_POWER", "i1">>, <<"NEW2_MODE_B", "i65">>>>]
   >>

PhilipsHU1509_AVAILABLE_SPEEDS ==
   <<
      [name |-> "SLEEP", pattern |-> <<<<"NEW2_POWER", "i1">>, <<"NEW2_MODE_B", "i17">>>>],
      [name |-> "MEDIUM", pattern |-> <<<<"NEW2_POWER", "i1">>, <<"NEW2_MODE_B", "i19">>>>],
      [name |-> "HIGH", pattern |-> <<<<"NEW2_POWER", "i1">>, <<"NEW2_MODE_B", "i65">>>>]
   >>
PhilipsGenericFan ==
   [cls |-> "PhilipsGenericFan",
    KEY_PHILIPS_POWER |-> "POWER", STATE_POWER_ON |-> "1", STATE_POWER_OFF |-> "0",
    AVAILABLE_PRESET_MODES |-> <<>>,
    AVAILABLE_SPEEDS |-> <<>>,
    REPLACE_PRESET |-> <<>>, REPLACE_SPEED |-> <<>>,
    KEY_OSCILLATION |-> <<>>]

PhilipsAC1214 ==
   [cls |-> "PhilipsAC1214",
    KEY_PHILIPS_POWER |-> "POWER", STATE_POWER_ON |-> "1", STATE_POWER_OFF |-> "0",
    AVAILABLE_PRESET_MODES |-> PhilipsAC1214_AVAILABLE_PRESET_MODES,
    AVAILABLE_SPEEDS |-> PhilipsAC1214_AVAILABLE_SPEEDS,
    REPLACE_PRESET |-> <<>>, REPLACE_SPEED |-> <<>>,
    KEY_OSCILLATION |-> <<>>]

PhilipsAC2729 ==
   [cls |-> "PhilipsAC2729",
    KEY_PHILIPS_POWER |-> "POWER", STATE_POWER_ON |-> "1", STATE_POWER_OFF |-> "0",
    AVAILABLE_PRESET_MODES |-> PhilipsAC2729_AVAILABLE_PRESET_MODES,
    AVAILABLE_SPEEDS |-> PhilipsAC2729_AVAILABLE_SPEEDS,
    REPLACE_PRESET |-> <<>>, REPLACE_SPEED |-> <<>>,
    KEY_OSCILLATION |-> <<>>]

PhilipsAC2889 ==
   [cls |-> "PhilipsAC2889",
    KEY_PHILIPS_POWER |-> "POWER", STATE_POWER_ON |-> "1", STATE_POWER_OFF |-> "0",
    AVAILABLE_PRESET_MODES |-> PhilipsAC2889_AVAILABLE_PRESET_MODES,
    AVAILABLE_SPEEDS |-> PhilipsAC2889_AVAILABLE_SPEEDS,
    REPLACE_PRESET |-> <<>>, REPLACE_SPEED |-> <<>>,
    KEY_OSCILLATION |-> <<>>]

PhilipsAC29xx ==
   [cls |-> "PhilipsAC29xx",
    KEY_PHILIPS_POWER |-> "POWER", STATE_POWER_ON |-> "1", STATE_POWER_OFF |-> "0",
    AVAILABLE_PRESET_MODES |-> PhilipsAC29xx_AVAILABLE_PRESET_MODES,
    AVAILABLE_SPEEDS |-> PhilipsAC29xx_AVAILABLE_SPEEDS,
    REPLACE_PRESET |-> <<>>, REPLACE_SPEED |-> <<>>,
    KEY_OSCILLATION |-> <<>>]

PhilipsAC303x ==
   [cls |-> "PhilipsAC303x",
    KEY_PHILIPS_POWER |-> "POWER", STATE_POWER_ON |-> "1", STATE_POWER_OFF |-> "0",
    AVAILABLE_PRESET_MODES |-> PhilipsAC303x_AVAILABLE_PRESET_MODES,
    AVAILABLE_SPEEDS |-> PhilipsAC303x_AVAILABLE_SPEEDS,
    REPLACE_PRESET |-> <<>>, REPLACE_SPEED |-> <<>>,
    KEY_OSCILLATION |-> <<>>]

PhilipsAC305x ==
   [cls |-> "PhilipsAC305x",
    KEY_PHILIPS_POWER |-> "POWER", STATE_POWER_ON |-> "1", STATE_POWER_OFF |-> "0",
    AVAILABLE_PRESET_MODES |-> PhilipsAC305x_AVAILABLE_PRESET_MODES,
    AVAILABLE_SPEEDS |-> PhilipsAC305x_AVAILABLE_SPEEDS,
    REPLACE_PRESET |-> <<>>, REPLACE_SPEED |-> <<>>,
    KEY_OSCILLATION |-> <<>>]

PhilipsAC3829 ==
   [cls |-> "PhilipsAC3829",
    KEY_PHILIPS_POWER |-> "POWER", STATE_POWER_ON |-> "1", STATE_POWER_OFF |-> "0",
    AVAILABLE_PRESET_MODES |-> PhilipsAC3829_AVAILABLE_PRESET_MODES,
    AVAILABLE_SPEEDS |-> PhilipsAC3829_AVAILABLE_SPEEDS,
    REPLACE_PRESET |-> <<>>, REPLACE_SPEED |-> <<>>,
    KEY_OSCILLATION |-> <<>>]

PhilipsAC3836 ==
   [cls |-> "PhilipsAC3836",
    KEY_PHILIPS_POWER |-> "POWER", STATE_POWER_ON |-> "1", STATE_POWER_OFF |-> "0",
    AVAILABLE_PRESET_MODES |-> PhilipsAC3836_AVAILABLE_PRESET_MODES,
    AVAILABLE_SPEEDS |-> PhilipsAC3836_AVAILABLE_SPEEDS,
    REPLACE_PRESET |-> <<>>, REPLACE_SPEED |-> <<>>,
    KEY_OSCILLATION |-> <<>>]

PhilipsAC4558 ==
   [cls |-> "PhilipsAC4558",
    KEY_PHILIPS_POWER |-> "POWER", STATE_POWER_ON |-> "1", STATE_POWER_OFF |-> "0",
    AVAILABLE_PRESET_MODES |-> PhilipsAC4558_AVAILABLE_PRESET_MODES,
    AVAILABLE_SPEEDS |-> PhilipsAC4558_AVAILABLE_SPEEDS,
    REPLACE_PRESET |-> <<>>, REPLACE_SPEED |-> <<>>,
    KEY_OSCILLATION |-> <<>>]

PhilipsAC5659 ==
   [cls |-> "PhilipsAC5659",
    KEY_PHILIPS_POWER |-> "POWER", STATE_POWER_ON |-> "1", STATE_POWER_OFF |-> "0",
    AVAILABLE_PRESET_MODES |-> PhilipsAC5659_AVAILABLE_PRESET_MODES,
    AVAILABLE_SPEEDS |-> PhilipsAC5659_AVAILABLE_SPEEDS,
    REPLACE_PRESET |-> <<>>, REPLACE_SPEED |-> <<>>,
    KEY_OSCILLATION |-> <<>>]

PhilipsNewGenericFan ==
   [cls |-> "PhilipsNewGenericFan",
    KEY_PHILIPS_POWER |-> "NEW_POWER", STATE_POWER_ON |-> "ON", STATE_POWER_OFF |-> "OFF",
    AVAILABLE_PRESET_MODES |-> <<>>,
    AVAILABLE_SPEEDS |-> <<>>,
    REPLACE_PRESET |-> <<>>, REPLACE_SPEED |-> <<>>,
    KEY_OSCILLATION |-> <<>>]

PhilipsAC085011 ==
   [cls |-> "PhilipsAC085011",
    KEY_PHILIPS_POWER |-> "NEW_POWER", STATE_POWER_ON |-> "ON", STATE_POWER_OFF |-> "OFF",
    AVAILABLE_PRESET_MODES |-> PhilipsAC085011_AVAILABLE_PRESET_MODES,
    AVAILABLE_SPEEDS |-> PhilipsAC085011_AVAILABLE_SPEEDS,
    REPLACE_PRESET |-> <<>>, REPLACE_SPEED |-> <<>>,
    KEY_OSCILLATION |-> <<>>]

PhilipsAC1715 ==
   [cls |-> "PhilipsAC1715",
    KEY_PHILIPS_POWER |-> "NEW_POWER", STATE_POWER_ON |-> "ON", STATE_POWER_OFF |-> "OFF",
    AVAILABLE_PRESET_MODES |-> PhilipsAC1715_AVAILABLE_PRESET_MODES,
    AVAILABLE_SPEEDS |-> PhilipsAC1715_AVAILABLE_SPEEDS,
    REPLACE_PRESET |-> <<>>, REPLACE_SPEED |-> <<>>,
    KEY_OSCILLATION |-> <<>>]

PhilipsNew2GenericFan ==
   [cls |-> "PhilipsNew2GenericFan",
    KEY_PHILIPS_POWER |-> "NEW2_POWER", STATE_POWER_ON |-> "i1", STATE_POWER_OFF |-> "i0",
    AVAILABLE_PRESET_MODES |-> <<>>,
    AVAILABLE_SPEEDS |-> <<>>,
    REPLACE_PRESET |-> <<>>, REPLACE_SPEED |-> <<>>,
    KEY_OSCILLATION |-> <<>>]

PhilipsAC085011C ==
   [cls |-> "PhilipsAC085011C",
    KEY_PHILIPS_POWER |-> "NEW2_POWER", STATE_POWER_ON |-> "i1", STATE_POWER_OFF |-> "i0",
    AVAILABLE_PRESET_MODES |-> PhilipsAC085011C_AVAILABLE_PRESET_MODES,
    AVAILABLE_SPEEDS |-> PhilipsAC085011C_AVAILABLE_SPEEDS,
    REPLACE_PRESET |-> <<>>, REPLACE_SPEED |-> <<>>,
    KEY_OSCILLATION |-> <<>>]

PhilipsAC0950 ==
   [cls |-> "PhilipsAC0950",
    KEY_PHILIPS_POWER |-> "NEW2_POWER", STATE_POWER_ON |-> "i1", STATE_POWER_OFF |-> "i0",
    AVAILABLE_PRESET_MODES |-> PhilipsAC0950_AVAILABLE_PRESET_MODES,
    AVAILABLE_SPEEDS |-> PhilipsAC0950_AVAILABLE_SPEEDS,
    REPLACE_PRESET |-> <<>>, REPLACE_SPEED |-> <<>>,
    KEY_OSCILLATION |-> <<>>]

PhilipsAC32xx ==
   [cls |-> "PhilipsAC32xx",
    KEY_PHILIPS_POWER |-> "NEW2_POWER", STATE_POWER_ON |-> "i1", STATE_POWER_OFF |-> "i0",
    AVAILABLE_PRESET_MODES |-> PhilipsAC32xx_AVAILABLE_PRESET_MODES,
    AVAILABLE_SPEEDS |-> PhilipsAC32xx_AVAILABLE_SPEEDS,
    REPLACE_PRESET |-> <<>>, REPLACE_SPEED |-> <<>>,
    KEY_OSCILLATION |-> <<>>]

PhilipsAC3737 ==
   [cls |-> "PhilipsAC3737",
    KEY_PHILIPS_POWER |-> "NEW2_POWER", STATE_POWER_ON |-> "i1", STATE_POWER_OFF |-> "i0",
    AVAILABLE_PRESET_MODES |-> PhilipsAC3737_AVAILABLE_PRESET_MODES,
    AVAILABLE_SPEEDS |-> PhilipsAC3737_AVAILABLE_SPEEDS,
    REPLACE_PRESET |-> <<>>, REPLACE_SPEED |-> <<>>,
    KEY_OSCILLATION |-> <<>>]

PhilipsAMFxxx ==
   [cls |-> "PhilipsAMFxxx",
    KEY_PHILIPS_POWER |-> "NEW2_POWER", STATE_POWER_ON |-> "i1", STATE_POWER_OFF |-> "i0",
    AVAILABLE_PRESET_MODES |-> PhilipsAMFxxx_AVAILABLE_PRESET_MODES,
    AVAILABLE_SPEEDS |-> PhilipsAMFxxx_AVAILABLE_SPEEDS,
    REPLACE_PRESET |-> <<>>, REPLACE_SPEED |-> <<>>,
    KEY_OSCILLATION |-> <<>>]

PhilipsCX3120 ==
   [cls |-> "PhilipsCX3120",
    KEY_PHILIPS_POWER |-> "NEW2_POWER", STATE_POWER_ON |-> "i1", STATE_POWER_OFF |-> "i0",
    AVAILABLE_PRESET_MODES |-> PhilipsCX3120_AVAILABLE_PRESET_MODES,
    AVAILABLE_SPEEDS |-> PhilipsCX3120_AVAILABLE_SPEEDS,
    REPLACE_PRESET |-> <<>>, REPLACE_SPEED |-> <<>>,
    KEY_OSCILLATION |-> <<[key |-> "NEW2_OSCILLATION", values |-> OSCILLATION_MAP3]>>]

PhilipsCX5120 ==
   [cls |-> "PhilipsCX5120",
    KEY_PHILIPS_POWER |-> "NEW2_POWER", STATE_POWER_ON |-> "i1", STATE_POWER_OFF |-> "i0",
    AVAILABLE_PRESET_MODES |-> PhilipsCX5120_AVAILABLE_PRESET_MODES,
    AVAILABLE_SPEEDS |-> PhilipsCX5120_AVAILABLE_SPEEDS,
    REPLACE_PRESET |-> <<>>, REPLACE_SPEED |-> <<>>,
    KEY_OSCILLATION |-> <<[key |-> "NEW2_OSCILLATION", values |-> OSCILLATION_MAP2]>>]

PhilipsCX3550 ==
   [cls |-> "PhilipsCX3550",
    KEY_PHILIPS_POWER |-> "NEW2_POWER", STATE_POWER_ON |-> "i1", STATE_POWER_OFF |-> "i0",
    AVAILABLE_PRESET_MODES |-> PhilipsCX3550_AVAILABLE_PRESET_MODES,
    AVAILABLE_SPEEDS |-> PhilipsCX3550_AVAILABLE_SPEEDS,
    REPLACE_PRESET |-> <<>>, REPLACE_SPEED |-> <<>>,
    KEY_OSCILLATION |-> <<[key |-> "NEW2_OSCILLATION", values |-> OSCILLATION_MAP2]>>]

PhilipsHU1509 ==
   [cls |-> "PhilipsHU1509",
    KEY_PHILIPS_POWER |-> "NEW2_POWER", STATE_POWER_ON |-> "i1", STATE_POWER_OFF |-> "i0",
    AVAILABLE_PRESET_MODES |-> PhilipsHU1509_AVAILABLE_PRESET_MODES,
    AVAILABLE_SPEEDS |-> PhilipsHU1509_AVAILABLE_SPEEDS,
    REPLACE_PRESET |-> <<>>, REPLACE_SPEED |-> <<>>,
    KEY_OSCILLATION |-> <<>>]

Families ==
   {PhilipsGenericFan,
    PhilipsAC1214,
    PhilipsAC2729,
    PhilipsAC2889,
    PhilipsAC29xx,
    PhilipsAC303x,
    PhilipsAC305x,
    PhilipsAC3829,
    PhilipsAC3836,
    PhilipsAC4558,
    PhilipsAC5659,
    PhilipsNewGenericFan,
    PhilipsAC085011,
    PhilipsAC1715,
    PhilipsNew2GenericFan,
    PhilipsAC085011C,
    PhilipsAC0950,
    PhilipsAC32xx,
    PhilipsAC3737,
    PhilipsAMFxxx,
    PhilipsCX3120,
    PhilipsCX5120,
    PhilipsCX3550,
    PhilipsHU1509}
-----------------------------------------------------------------------------
(* Helpers for dicts *)

\* dict.get(k): the value at k, None when the key is absent
Get(d, k) == IF k \in DOMAIN d THEN d[k] ELSE None

\* d[k] = v
SetItem(d, k, v) == [x \in (DOMAIN d) \cup {k} |-> IF x = k THEN v ELSE d[x]]

\* d.update(pattern), item after item
RECURSIVE Update(_, _)
Update(d, pattern) ==
   IF pattern = <<>> THEN d
   ELSE Update(SetItem(d, Head(pattern)[1], Head(pattern)[2]), Tail(pattern))

\* self._available_preset_modes.get(name): None (written <<>>) when absent
RECURSIVE TableGet(_, _)
TableGet(table, name) ==
   IF table = <<>> THEN <<>>
   ELSE IF Head(table).name = name THEN Head(table).pattern
   ELSE TableGet(Tail(table), name)

\* list(table.keys())
Names(table) == [i \in 1..Len(table) |-> table[i].name]

\* pattern.get(k)
RECURSIVE PatternGet(_, _)
PatternGet(pattern, k) ==
   IF pattern = <<>> THEN None
   ELSE IF Head(pattern)[1] = k THEN Head(pattern)[2]
   ELSE PatternGet(Tail(pattern), k)

-----------------------------------------------------------------------------
(* homeassistant.util.percentage, as called from base.py *)

\* what a call gives that raises ValueError instead of returning
RaisesValueError == "raise ValueError"

\* list.index(item) + 1 from position i on; ValueError when the item is not
\* in the list
RECURSIVE IndexOf(_, _, _)
IndexOf(list, item, i) ==
   IF i > Len(list) THEN RaisesValueError
   ELSE IF list[i] = item THEN i ELSE IndexOf(list, item, i + 1)

\* (list_position * 100) // list_len, list_position counted from 1; ValueError
\* when the item is not in the list
ordered_list_item_to_percentage(ordered_list, item) ==
   IF \A i \in 1..Len(ordered_list) : ordered_list[i] # item THEN RaisesValueError
   ELSE (IndexOf(ordered_list, item, 1) * 100) \div Len(ordered_list)

\* the first item whose upper bound reaches the percentage, else the last
RECURSIVE percentage_scan(_, _, _)
percentage_scan(ordered_list, percentage, offset) ==
   IF offset > Len(ordered_list) THEN ordered_list[Len(ordered_list)]
   ELSE IF percentage <= (offset * 100) \div Len(ordered_list)
        THEN ordered_list[offset]
        ELSE percentage_scan(ordered_list, percentage, offset + 1)

\* ValueError when the list is empty
percentage_to_ordered_list_item(ordered_list, percentage) ==
   IF ordered_list = <<>> THEN RaisesValueError
   ELSE percentage_scan(ordered_list, percentage, 1)

-----------------------------------------------------------------------------
(* State projections of PhilipsGenericFanBase *)

is_on(f, st) == Get(st, f.KEY_PHILIPS_POWER) = f.STATE_POWER_ON

\* the key read for a pattern key, after the REPLACE_* substitution
ReplacedKey(replace, k) ==
   IF replace # <<>> /\ k = replace[1] THEN replace[2] ELSE k

\* inner loop: break at the first differing item, else-branch when none
RECURSIVE PatternMatches(_, _, _)
PatternMatches(pattern, replace, st) ==
   IF pattern = <<>> THEN TRUE
   ELSE IF Get(st, ReplacedKey(replace, Head(pattern)[1])) # Head(pattern)[2]
        THEN FALSE
        ELSE PatternMatches(Tail(pattern), replace, st)

\* outer loop: the name of the first matching entry, None after the loop
RECURSIVE FirstMatch(_, _, _)
FirstMatch(table, replace, st) ==
   IF table = <<>> THEN None
   ELSE IF PatternMatches(Head(table).pattern, replace, st)
        THEN Head(table).name
        ELSE FirstMatch(Tail(table), replace, st)

\* the loop without its early return: the last matching entry wins
RECURSIVE LastMatch(_, _, _)
LastMatch(table, replace, st) ==
   IF table = <<>> THEN None
   ELSE IF PatternMatches(table[Len(table)].pattern, replace, st)
        THEN table[Len(table)].name
        ELSE LastMatch(SubSeq(table, 1, Len(table) - 1), replace, st)

preset_mode_last(f, st) == LastMatch(f.AVAILABLE_PRESET_MODES, f.REPLACE_PRESET, st)

preset_mode(f, st) == FirstMatch(f.AVAILABLE_PRESET_MODES, f.REPLACE_PRESET, st)

\* None is written NoPercentage
percentage(f, st) ==
   LET speed == FirstMatch(f.AVAILABLE_SPEEDS, f.REPLACE_SPEED, st)
   IN  IF speed = None THEN NoPercentage
       ELSE ordered_list_item_to_percentage(Names(f.AVAILABLE_SPEEDS), speed)

\* without the check for a status that holds no value at the key
oscillating_unchecked(f, st) == IF f.KEY_OSCILLATION = <<>> THEN None ELSE IF Get(st, f.KEY_OSCILLATION[1].key) # f.KEY_OSCILLATION[1].values.off THEN "True" ELSE "False"

\* "None" when no key is declared or the key is absent, else "True"/"False"
oscillating(f, st) ==
   IF f.KEY_OSCILLATION = <<>> THEN None
   ELSE LET key == f.KEY_OSCILLATION[1].key
            off == f.KEY_OSCILLATION[1].values.off
        IN  IF Get(st, key) = None THEN None
            ELSE IF Get(st, key) # off THEN "True" ELSE "False"

-----------------------------------------------------------------------------
(* Command handlers run without interruption.  Each operator gives, for    *)
(* the status a handler starts with, what it leaves when every call it     *)
(* awaits returns and nothing else runs in between: the status, the calls  *)
(* it awaited in order (transport writes and settle delays), the exception *)
(* it raised (None when it returned) and the number of change              *)
(* notifications (_handle_coordinator_update) it made.  The handlers as    *)
(* coroutines, suspended at each await, follow below.                      *)

set_control_value(k, v) == [op |-> "set_control_value", data |-> << <<k, v>> >>]

set_control_values(pattern) == [op |-> "set_control_values", data |-> pattern]

\* asyncio.sleep(1)
sleep == [op |-> "sleep", data |-> <<>>]

Outcome(st, cs, exc, n) ==
   [status |-> st, calls |-> cs, raised |-> exc, notified |-> n]

\* Python truthiness of the preset_mode and percentage arguments
PresetGiven(p) == p # None /\ p # ""

PercentageGiven(n) == n # NoPercentage /\ n # 0

PhilipsGenericFanBase_async_turn_off(f, st) ==
   Outcome(SetItem(st, f.KEY_PHILIPS_POWER, f.STATE_POWER_OFF),
           <<set_control_value(f.KEY_PHILIPS_POWER, f.STATE_POWER_OFF)>>,
           None, 1)

PhilipsGenericFanBase_async_set_preset_mode(f, st, p) ==
   LET status_pattern == TableGet(f.AVAILABLE_PRESET_MODES, p)
   IN  IF status_pattern # <<>>
       THEN Outcome(Update(st, status_pattern),
                    <<set_control_values(status_pattern)>>, None, 1)
       ELSE Outcome(st, <<>>, None, 0)

\* percentage_to_ordered_list_item raises ValueError on an empty list;
\* dict.update(None) raises TypeError
PhilipsGenericFanBase_async_set_percentage(f, st, n) ==
   IF n = 0 THEN PhilipsGenericFanBase_async_turn_off(f, st)
   ELSE IF f.AVAILABLE_SPEEDS = <<>> THEN Outcome(st, <<>>, "ValueError", 0)
   ELSE LET speed == percentage_to_ordered_list_item(Names(f.AVAILABLE_SPEEDS), n)
            status_pattern == TableGet(f.AVAILABLE_SPEEDS, speed)
        IN  IF status_pattern # <<>>
            THEN Outcome(Update(st, status_pattern),
                         <<set_control_values(status_pattern)>>, None, 1)
            ELSE Outcome(st, <<>>, "TypeError", 0)

PhilipsGenericFanBase_async_turn_on(f, st, n, p) ==
   IF PresetGiven(p) THEN PhilipsGenericFanBase_async_set_preset_mode(f, st, p)
   ELSE IF PercentageGiven(n) THEN PhilipsGenericFanBase_async_set_percentage(f, st, n)
   ELSE Outcome(SetItem(st, f.KEY_PHILIPS_POWER, f.STATE_POWER_ON),
                <<set_control_value(f.KEY_PHILIPS_POWER, f.STATE_POWER_ON)>>,
                None, 1)

async_oscillate(f, st, osc) ==
   IF f.KEY_OSCILLATION = <<>> THEN Outcome(st, <<>>, None, 0)
   ELSE LET key == f.KEY_OSCILLATION[1].key
            on  == f.KEY_OSCILLATION[1].values.on
            off == f.KEY_OSCILLATION[1].values.off
            v   == IF osc THEN on ELSE off
        IN  Outcome(SetItem(st, key, v), <<set_control_value(key, v)>>, None, 1)

(* PhilipsAC1214: the overrides write to the transport only *)

_ensure_power_on(f, st) ==
   IF ~is_on(f, st)
   THEN <<set_control_value("POWER", POWER_MAP.on), sleep>>
   ELSE <<>>

\* the intermediate write without its settle delay
_ensure_mode_transition_unsettled(f, st, target_mode) == IF target_mode # "A" /\ TableGet(f.AVAILABLE_PRESET_MODES, preset_mode(f, st)) # <<>> /\ PatternGet(TableGet(f.AVAILABLE_PRESET_MODES, preset_mode(f, st)), "MODE") # "M" THEN <<set_control_values(TableGet(f.AVAILABLE_PRESET_MODES, "ALLERGEN"))>> ELSE <<>>

_ensure_mode_transition(f, st, target_mode) ==
   LET current_pattern == TableGet(f.AVAILABLE_PRESET_MODES, preset_mode(f, st))
   IN  IF /\ target_mode # "A"
          /\ current_pattern # <<>>
          /\ PatternGet(current_pattern, "MODE") # "M"
       THEN <<set_control_values(TableGet(f.AVAILABLE_PRESET_MODES, "ALLERGEN")),
              sleep>>
       ELSE <<>>

PhilipsAC1214_async_set_preset_mode(f, st, p) ==
   LET status_pattern == TableGet(f.AVAILABLE_PRESET_MODES, p)
   IN  IF status_pattern # <<>>
       THEN Outcome(st,
                    _ensure_power_on(f, st)
                       \o _ensure_mode_transition(f, st, PatternGet(status_pattern, "MODE"))
                       \o <<set_control_values(status_pattern)>>,
                    None, 0)
       ELSE Outcome(st, _ensure_power_on(f, st), None, 0)

PhilipsAC1214_async_set_percentage(f, st, n) ==
   IF n = 0
   THEN LET off == PhilipsGenericFanBase_async_turn_off(f, st)
        IN  [off EXCEPT !.calls = _ensure_power_on(f, st) \o @]
   ELSE IF f.AVAILABLE_SPEEDS = <<>>
        THEN Outcome(st, _ensure_power_on(f, st), "ValueError", 0)
   ELSE LET speed == percentage_to_ordered_list_item(Names(f.AVAILABLE_SPEEDS), n)
            status_pattern == TableGet(f.AVAILABLE_SPEEDS, speed)
        IN  IF status_pattern # <<>>
            THEN Outcome(st,
                         _ensure_power_on(f, st)
                            \o _ensure_mode_transition(f, st, PatternGet(status_pattern, "MODE"))
                            \o <<set_control_values(status_pattern)>>,
                         None, 0)
            ELSE Outcome(st, _ensure_power_on(f, st), None, 0)

\* the status is the one the handler started with in the delegated call
\* too: nothing before it has changed the store
PhilipsAC1214_async_turn_on(f, st, n, p) ==
   IF PresetGiven(p)
   THEN LET r == PhilipsAC1214_async_set_preset_mode(f, st, p)
        IN  [r EXCEPT !.calls = _ensure_power_on(f, st) \o @]
   ELSE IF PercentageGiven(n)
   THEN LET r == PhilipsAC1214_async_set_percentage(f, st, n)
        IN  [r EXCEPT !.calls = _ensure_power_on(f, st) \o @]
   ELSE Outcome(st, _ensure_power_on(f, st), None, 0)

(* Method resolution: PhilipsAC1214 overrides three handlers *)

async_turn_on(f, st, n, p) ==
   IF f.cls = "PhilipsAC1214" THEN PhilipsAC1214_async_turn_on(f, st, n, p)
   ELSE PhilipsGenericFanBase_async_turn_on(f, st, n, p)

async_turn_off(f, st) == PhilipsGenericFanBase_async_turn_off(f, st)

async_set_preset_mode(f, st, p) ==
   IF f.cls = "PhilipsAC1214" THEN PhilipsAC1214_async_set_preset_mode(f, st, p)
   ELSE PhilipsGenericFanBase_async_set_preset_mode(f, st, p)

async_set_percentage(f, st, n) ==
   IF f.cls = "PhilipsAC1214" THEN PhilipsAC1214_async_set_percentage(f, st, n)
   ELSE PhilipsGenericFanBase_async_set_percentage(f, st, n)

-----------------------------------------------------------------------------
(* Command handlers as coroutines.  A handler is a sequence of steps: it   *)
(* runs on the event loop until it awaits a transport write or a settle    *)
(* delay, and is resumed when the await completes; other handlers run in   *)
(* between.  The steps that read the Status Store read it when they run.   *)

\* await <call>
Await(call) == [ins |-> "await", arg |-> call]

\* self._device_status.update(pattern), self._device_status[key] = value
StoreUpdate(pattern) == [ins |-> "update", arg |-> pattern]

\* self._handle_coordinator_update()
Notify == [ins |-> "notify", arg |-> <<>>]

Raise(exc) == [ins |-> "raise", arg |-> exc]

\* await self._ensure_power_on()
EnsurePowerOn == [ins |-> "_ensure_power_on", arg |-> <<>>]

\* await self._ensure_mode_transition(target_mode)
EnsureModeTransition(target_mode) == [ins |-> "_ensure_mode_transition", arg |-> target_mode]

\* with the store changed before the write is awaited
turn_off_steps_optimistic(f) == <<StoreUpdate(<< <<f.KEY_PHILIPS_POWER, f.STATE_POWER_OFF>> >>), Notify, Await(set_control_value(f.KEY_PHILIPS_POWER, f.STATE_POWER_OFF))>>

turn_off_steps(f) ==
   <<Await(set_control_value(f.KEY_PHILIPS_POWER, f.STATE_POWER_OFF)),
     StoreUpdate(<< <<f.KEY_PHILIPS_POWER, f.STATE_POWER_OFF>> >>),
     Notify>>

PhilipsGenericFanBase_set_preset_mode_steps(f, p) ==
   LET status_pattern == TableGet(f.AVAILABLE_PRESET_MODES, p)
   IN  IF status_pattern # <<>>
       THEN <<Await(set_control_values(status_pattern)), StoreUpdate(status_pattern), Notify>>
       ELSE <<>>

PhilipsGenericFanBase_set_percentage_steps(f, n) ==
   IF n = 0 THEN turn_off_steps(f)
   ELSE IF f.AVAILABLE_SPEEDS = <<>> THEN <<Raise("ValueError")>>
   ELSE LET speed == percentage_to_ordered_list_item(Names(f.AVAILABLE_SPEEDS), n)
            status_pattern == TableGet(f.AVAILABLE_SPEEDS, speed)
        IN  IF status_pattern # <<>>
            THEN <<Await(set_control_values(status_pattern)),
                   StoreUpdate(status_pattern), Notify>>
            ELSE <<Raise("TypeError")>>

PhilipsGenericFanBase_turn_on_steps(f, n, p) ==
   IF PresetGiven(p) THEN PhilipsGenericFanBase_set_preset_mode_steps(f, p)
   ELSE IF PercentageGiven(n) THEN PhilipsGenericFanBase_set_percentage_steps(f, n)
   ELSE <<Await(set_control_value(f.KEY_PHILIPS_POWER, f.STATE_POWER_ON)),
          StoreUpdate(<< <<f.KEY_PHILIPS_POWER, f.STATE_POWER_ON>> >>),
          Notify>>

oscillate_steps(f, osc) ==
   IF f.KEY_OSCILLATION = <<>> THEN <<>>
   ELSE LET key == f.KEY_OSCILLATION[1].key
            v   == IF osc THEN f.KEY_OSCILLATION[1].values.on
                   ELSE f.KEY_OSCILLATION[1].values.off
        IN  <<Await(set_control_value(key, v)), StoreUpdate(<< <<key, v>> >>), Notify>>

PhilipsAC1214_set_preset_mode_steps(f, p) ==
   LET status_pattern == TableGet(f.AVAILABLE_PRESET_MODES, p)
   IN  <<EnsurePowerOn>> \o
       (IF status_pattern # <<>>
        THEN <<EnsureModeTransition(PatternGet(status_pattern, "MODE")),
               Await(set_control_values(status_pattern))>>
        ELSE <<>>)

PhilipsAC1214_set_percentage_steps(f, n) ==
   <<EnsurePowerOn>> \o
   (IF n = 0 THEN turn_off_steps(f)
    ELSE IF f.AVAILABLE_SPEEDS = <<>> THEN <<Raise("ValueError")>>
    ELSE LET speed == percentage_to_ordered_list_item(Names(f.AVAILABLE_SPEEDS), n)
             status_pattern == TableGet(f.AVAILABLE_SPEEDS, speed)
         IN  IF status_pattern # <<>>
             THEN <<EnsureModeTransition(PatternGet(status_pattern, "MODE")),
                    Await(set_control_values(status_pattern))>>
             ELSE <<>>)

PhilipsAC1214_turn_on_steps(f, n, p) ==
   <<EnsurePowerOn>> \o
   (IF PresetGiven(p) THEN PhilipsAC1214_set_preset_mode_steps(f, p)
    ELSE IF PercentageGiven(n) THEN PhilipsAC1214_set_percentage_steps(f, n)
    ELSE <<>>)

\* the steps of the handler a command starts
handler_steps(f, c) ==
   IF c.op = "turn_on"
   THEN IF f.cls = "PhilipsAC1214"
        THEN PhilipsAC1214_turn_on_steps(f, c.percentage, c.preset_mode)
        ELSE PhilipsGenericFanBase_turn_on_steps(f, c.percentage, c.preset_mode)
   ELSE IF c.op = "turn_off" THEN turn_off_steps(f)
   ELSE IF c.op = "set_preset_mode"
   THEN IF f.cls = "PhilipsAC1214"
        THEN PhilipsAC1214_set_preset_mode_steps(f, c.preset_mode)
        ELSE PhilipsGenericFanBase_set_preset_mode_steps(f, c.preset_mode)
   ELSE IF c.op = "set_percentage"
   THEN IF f.cls = "PhilipsAC1214"
        THEN PhilipsAC1214_set_percentage_steps(f, c.percentage)
        ELSE PhilipsGenericFanBase_set_percentage_steps(f, c.percentage)
   ELSE oscillate_steps(f, c.oscillating)

\* a handler just started: the command, the store it started with, the steps
\* left, the calls it has awaited, the exception it raised, its changes of
\* the store and its notifications
Task(f, st, c) ==
   [cmd |-> c, pre |-> st, steps |-> handler_steps(f, c), calls |-> <<>>,
    raised |-> None, mutated |-> 0, notified |-> 0]

Awaits(cs) == [i \in 1..Len(cs) |-> Await(cs[i])]

\* the handler runs until its next await, its end or an exception; the result
\* is the store and the handler it leaves
RECURSIVE run(_, _, _)
run(f, st, t) ==
   IF t.steps = <<>> THEN [status |-> st, task |-> t]
   ELSE LET step == Head(t.steps)
            rest == Tail(t.steps)
        IN  IF step.ins = "await"
            THEN [status |-> st, task |-> [t EXCEPT !.calls = Append(@, step.arg)]]
            ELSE IF step.ins = "update"
            THEN run(f, Update(st, step.arg),
                     [t EXCEPT !.steps = rest, !.mutated = @ + 1])
            ELSE IF step.ins = "notify"
            THEN run(f, st, [t EXCEPT !.steps = rest, !.notified = @ + 1])
            ELSE IF step.ins = "raise"
            THEN [status |-> st, task |-> [t EXCEPT !.steps = <<>>, !.raised = step.arg]]
            ELSE IF step.ins = "_ensure_power_on"
            THEN run(f, st, [t EXCEPT !.steps = Awaits(_ensure_power_on(f, st)) \o rest])
            ELSE run(f, st, [t EXCEPT !.steps =
                                Awaits(_ensure_mode_transition(f, st, step.arg)) \o rest])

\* the handler is suspended at an await
Suspended(t) == t.steps # <<>>

\* the call a suspended handler awaits
Awaited(t) == Head(t.steps).arg

-----------------------------------------------------------------------------
(* PhilipsFilterAlertSensor.  In the statuses the tracker reads, a filter  *)
(* value is an integer and an absent key is absent from the DOMAIN.        *)

\* const.FILTER_ALERT_THRESHOLD
FILTER_ALERT_THRESHOLD == 50

\* "Consider low if under ~72 hours"
RAW_HOURS_LOW == 72

\* const.FILTER_TYPES: per filter key its FanAttributes.TOTAL key, None when
\* the type declares none
FILTER_TYPES ==
   [k \in {"FILTER_PRE", "FILTER_NANOPROTECT"} |->
      IF k = "FILTER_NANOPROTECT"
      THEN [total |-> "FILTER_NANOPROTECT_TOTAL"]
      ELSE [total |-> None]]

\* the keys of FILTER_TYPES in the order of the dict
FILTER_ORDER == <<"FILTER_PRE", "FILTER_NANOPROTECT">>

\* [f for f in FILTER_TYPES if f in status and f not in unavailable_filters]
available_filters(st, unavailable) ==
   SelectSeq(FILTER_ORDER,
             LAMBDA f : /\ f \in DOMAIN st
                        /\ \A i \in 1..Len(unavailable) : unavailable[i] # f)

\* Python round() of the float num / den, den > 0: to nearest, ties to even
round(num, den) ==
   LET q == num \div den
       r == num % den
   IN  IF 2 * r < den THEN q
       ELSE IF 2 * r > den THEN q + 1
       ELSE IF q % 2 = 0 THEN q ELSE q + 1

EmptyDict == [k \in {} |-> 0]

\* with the threshold itself counted as low
RECURSIVE _get_low_filters_inclusive(_, _)
_get_low_filters_inclusive(filter_keys, st) ==
   IF filter_keys = <<>> THEN EmptyDict
   ELSE LET filter_key == Head(filter_keys)
            rest == _get_low_filters_inclusive(Tail(filter_keys), st)
        IN  IF filter_key \notin DOMAIN st THEN rest
            ELSE IF filter_key \notin DOMAIN FILTER_TYPES THEN rest
            ELSE LET total_key == FILTER_TYPES[filter_key].total
                     value == st[filter_key]
                 IN  IF total_key # None /\ total_key \in DOMAIN st
                     THEN IF /\ st[total_key] > 0
                             /\ round(100 * value, st[total_key]) <= FILTER_ALERT_THRESHOLD
                          THEN SetItem(rest, filter_key, round(100 * value, st[total_key]))
                          ELSE rest
                     ELSE IF value <= RAW_HOURS_LOW
                          THEN SetItem(rest, filter_key, value)
                          ELSE rest

\* with the raw-hours rule used when the total is not above 0
RECURSIVE _get_low_filters_fallback(_, _)
_get_low_filters_fallback(filter_keys, st) ==
   IF filter_keys = <<>> THEN EmptyDict
   ELSE LET filter_key == Head(filter_keys)
            rest == _get_low_filters_fallback(Tail(filter_keys), st)
        IN  IF filter_key \notin DOMAIN st THEN rest
            ELSE IF filter_key \notin DOMAIN FILTER_TYPES THEN rest
            ELSE LET total_key == FILTER_TYPES[filter_key].total
                     value == st[filter_key]
                 IN  IF total_key # None /\ total_key \in DOMAIN st /\ st[total_key] > 0
                     THEN IF round(100 * value, st[total_key]) < FILTER_ALERT_THRESHOLD
                          THEN SetItem(rest, filter_key, round(100 * value, st[total_key]))
                          ELSE rest
                     ELSE IF value < RAW_HOURS_LOW
                          THEN SetItem(rest, filter_key, value)
                          ELSE rest

RECURSIVE _get_low_filters(_, _)
_get_low_filters(filter_keys, st) ==
   IF filter_keys = <<>> THEN EmptyDict
   ELSE LET filter_key == Head(filter_keys)
            rest == _get_low_filters(Tail(filter_keys), st)
        IN  IF filter_key \notin DOMAIN st THEN rest
            ELSE IF filter_key \notin DOMAIN FILTER_TYPES THEN rest
            ELSE LET total_key == FILTER_TYPES[filter_key].total
                     value == st[filter_key]
                 IN  IF total_key # None /\ total_key \in DOMAIN st
                     THEN IF /\ st[total_key] > 0
                             /\ round(100 * value, st[total_key]) < FILTER_ALERT_THRESHOLD
                          THEN SetItem(rest, filter_key, round(100 * value, st[total_key]))
                          ELSE rest
                     ELSE IF value < RAW_HOURS_LOW
                          THEN SetItem(rest, filter_key, value)
                          ELSE rest

\* without the guard on the first update
new_low_filters_unguarded(previous_alert_state, previous_low_filters, current_low_filters) ==
   current_low_filters \ previous_low_filters

\* level-triggered: every low filter, not only the newly low ones
new_low_filters_level(previous_alert_state, previous_low_filters, current_low_filters) ==
   IF previous_alert_state # None THEN current_low_filters ELSE {}

\* the keys an update fires for: none while _previous_alert_state is None
new_low_filters(previous_alert_state, previous_low_filters, current_low_filters) ==
   IF previous_alert_state # None
   THEN current_low_filters \ previous_low_filters
   ELSE {}

\* the payload of hass.bus.fire(EVENT_FILTER_ALERT, ...), without the
\* device's and the filter's names
filter_alert_event(filter_key, low_filters_data) ==
   [filter_key |-> filter_key,
    percentage |-> low_filters_data[filter_key],
    threshold  |-> FILTER_ALERT_THRESHOLD]

\* self._previous_alert_state = current_alert
stored_alert_state(previous_alert_state, current_low_filters) ==
   IF current_low_filters # {} THEN "True" ELSE "False"

\* stored only by the updates that may fire
stored_low_filters_skipped(previous_alert_state, previous_low_filters, current_low_filters) ==
   IF previous_alert_state = None THEN previous_low_filters ELSE current_low_filters

\* self._previous_low_filters = current_low_filters
stored_low_filters(previous_alert_state, previous_low_filters, current_low_filters) ==
   current_low_filters

\* the orders in which a for loop may visit a set
RECURSIVE Orders(_)
Orders(S) ==
   IF S = {} THEN {<<>>}
   ELSE UNION {{<<x>> \o o : o \in Orders(S \ {x})} : x \in S}

-----------------------------------------------------------------------------
(* The fan entity of one device *)

VARIABLES
   family,     \* the capability descriptor of the device's class
   status,     \* coordinator.status, the Status Store
   cmd,        \* the last event: a command with its arguments, or a status update
   pre,        \* the Status Store as that command's issue or the last update left it
   calls,      \* the calls that command has awaited, in order
   raised,     \* the exception that command raised, None when it did not
   notified,   \* the change notifications that command has made
   steps,      \* what that command's handler has left to run; its head is the await
               \* it is suspended at, empty when no handler is in flight
   delivered,  \* how many statuses the coordinator delivered while it was in flight
   _filter_keys,            \* PhilipsFilterAlertSensor._filter_keys
   _previous_alert_state,   \* None, "True" or "False"
   _previous_low_filters,   \* the low set stored by the last tracker update
   fired,        \* the alert events the last tracker update fired, in order
   updates,      \* how many updates the tracker has handled
   low_before,   \* the low set of the status the update before the last one saw
   run_len,      \* per filter: the updates in a row, up to the last, that saw it low
   run_alerts,   \* per filter: the alerts fired for it during that run
   startup_run,  \* per filter: low at the first update and at every update since
   model_to_class,   \* the keys of devices.model_to_class, the registered models
   flow_env,         \* what the last flow step met: its input, host validity, fetch
                     \* outcome and status, id known
   _discovered_devices,  \* PhilipsAirPurifierConfigFlow._discovered_devices
   _status,          \* the status the config flow fetched
   _model,           \* PhilipsAirPurifierConfigFlow._model
   _wifi_version,    \* PhilipsAirPurifierConfigFlow._wifi_version
   _name,            \* PhilipsAirPurifierConfigFlow._name
   flow_result,      \* what the config flow step returned or raised
   reversed_mro,              \* reversed(cls.__mro__): each class's own declarations
   collected,                 \* whether an entity of the class has been constructed
   set_up,                    \* whether binary_sensor.async_setup_entry has run
   _available_attributes,     \* PhilipsGenericControlBase._available_attributes
   available_binary_sensors,  \* async_setup_entry's accumulated binary sensors
   unavailable_filters,       \* async_setup_entry's accumulated unavailable filters
   _available_preset_modes,   \* PhilipsGenericControlBase._available_preset_modes
   _available_speeds,         \* PhilipsGenericFanBase._available_speeds
   device_attributes,         \* what extra_state_attributes returned last
   tasks,      \* the command handlers started on the event loop, in order of issue
   wire,       \* the writes handed to the transport, in order
   scan        \* scan_for_devices: its phase, limiter and probes

fan_vars == <<family, cmd, pre, calls, raised, notified, steps, delivered>>

tracker_vars == <<_filter_keys, _previous_alert_state, _previous_low_filters, fired,
                  updates, low_before, run_len, run_alerts, startup_run>>

flow_vars == <<model_to_class, flow_env, _discovered_devices, _status, _model,
               _wifi_version, _name, flow_result>>

class_vars == <<reversed_mro, collected, set_up, _available_attributes, available_binary_sensors,
                unavailable_filters, _available_preset_modes, _available_speeds,
                device_attributes>>

async_vars == <<tasks, wire, scan>>

setup_vars == <<flow_vars, class_vars, async_vars>>

vars == <<status, fan_vars, tracker_vars, setup_vars>>

\* every (key, value) item of the family's patterns
RECURSIVE ItemsOf(_)
ItemsOf(table) ==
   IF table = <<>> THEN {}
   ELSE {Head(table).pattern[i] : i \in 1..Len(Head(table).pattern)}
           \cup ItemsOf(Tail(table))

PatternItems(f) == ItemsOf(f.AVAILABLE_PRESET_MODES) \cup ItemsOf(f.AVAILABLE_SPEEDS)

Replaces(f) == {r \in {f.REPLACE_PRESET, f.REPLACE_SPEED} : r # <<>>}

\* the keys of the raw status the fan entity reads or writes
StatusKeys(f) ==
   {f.KEY_PHILIPS_POWER}
      \cup {it[1] : it \in PatternItems(f)}
      \cup {r[2] : r \in Replaces(f)}
      \cup {f.KEY_OSCILLATION[i].key : i \in 1..Len(f.KEY_OSCILLATION)}

\* the values a key is given: absent, or a value the family knows for it
StatusValues(f, k) ==
   {None}
      \cup {it[2] : it \in {x \in PatternItems(f) : x[1] = k}}
      \cup {it[2] : it \in {x \in PatternItems(f) :
                              \E r \in Replaces(f) : r[2] = k /\ r[1] = x[1]}}
      \cup (IF k = f.KEY_PHILIPS_POWER
            THEN {f.STATE_POWER_ON, f.STATE_POWER_OFF} ELSE {})
      \cup UNION {{f.KEY_OSCILLATION[i].values.on, f.KEY_OSCILLATION[i].values.off} :
                    i \in {j \in 1..Len(f.KEY_OSCILLATION) : f.KEY_OSCILLATION[j].key = k}}

RECURSIVE StatusesOver(_, _)
StatusesOver(f, keys) ==
   IF keys = {} THEN {[k \in {} |-> None]}
   ELSE LET k == CHOOSE x \in keys : TRUE
        IN  {SetItem(s, k, v) : s \in StatusesOver(f, keys \ {k}), v \in StatusValues(f, k)}

Statuses(f) == StatusesOver(f, StatusKeys(f))

\* a value the device reports and no pattern of any family lists
Unlisted == "zz"

\* the most keys of one delivered status that hold an unlisted value
MaxUnlisted == 1

\* the statuses over the keys with at most n of them at an unlisted value
RECURSIVE DeliveredOver(_, _, _)
DeliveredOver(f, keys, n) ==
   IF keys = {} THEN {[k \in {} |-> None]}
   ELSE LET k == CHOOSE x \in keys : TRUE
        IN  {SetItem(s, k, v) : s \in DeliveredOver(f, keys \ {k}, n),
                                v \in StatusValues(f, k)}
               \cup (IF n = 0 THEN {}
                     ELSE {SetItem(s, k, Unlisted) :
                             s \in DeliveredOver(f, keys \ {k}, n - 1)})

\* the statuses the coordinator delivers: each key absent, at a value the
\* family knows for it, or at a value it does not know
Delivered(f) == DeliveredOver(f, StatusKeys(f), MaxUnlisted)

\* a preset name no family declares
UndeclaredPreset == "UNDECLARED"

PresetArgs(f) ==
   {f.AVAILABLE_PRESET_MODES[i].name : i \in 1..Len(f.AVAILABLE_PRESET_MODES)}
      \cup {UndeclaredPreset}

\* requested percentages: 0, 1, 100 and both sides of every speed's upper bound
PercentageArgs(f) ==
   LET n == Len(f.AVAILABLE_SPEEDS)
       ub == {(i * 100) \div n : i \in 1..n}
   IN  {0, 1, 100} \cup ub \cup {u + 1 : u \in {x \in ub : x < 100}}

NoCommand == [op |-> "update", percentage |-> NoPercentage, preset_mode |-> None,
              oscillating |-> FALSE]

Command(op, n, p, osc) ==
   [op |-> op, percentage |-> n, preset_mode |-> p, oscillating |-> osc]

\* no command issued yet
FanIdle ==
   /\ cmd = NoCommand
   /\ pre = status
   /\ calls = <<>>
   /\ raised = None
   /\ notified = 0
   /\ steps = <<>>
   /\ delivered = 0

\* async_setup_entry creates no filter alert sensor: the status holds no filter key
NoTracker ==
   /\ _filter_keys = <<>>
   /\ _previous_alert_state = None
   /\ _previous_low_filters = {}
   /\ fired = <<>>
   /\ updates = 0
   /\ low_before = {}
   /\ run_len = <<>>
   /\ run_alerts = <<>>
   /\ startup_run = <<>>

\* no config flow is running
NoFlow ==
   /\ model_to_class = {}
   /\ flow_env = <<>>
   /\ _discovered_devices = <<>>
   /\ _status = <<>>
   /\ _model = <<>>
   /\ _wifi_version = <<>>
   /\ _name = <<>>
   /\ flow_result = <<>>

\* no class's capability fields are being assembled
NoClass ==
   /\ reversed_mro = <<>>
   /\ collected = FALSE
   /\ set_up = FALSE
   /\ _available_attributes = <<>>
   /\ available_binary_sensors = <<>>
   /\ unavailable_filters = <<>>
   /\ _available_preset_modes = <<>>
   /\ _available_speeds = <<>>
   /\ device_attributes = <<>>

\* no command handler is suspended
NoTasks ==
   /\ tasks = <<>>
   /\ wire = <<>>

\* no command handler is suspended and no scan is running
NoAsync == NoTasks /\ scan = <<>>

NoSetup == NoFlow /\ NoClass /\ NoAsync

\* the families commands are issued to: every family whose status has at
\* most two keys, and of the larger ones a family with the base handlers, a
\* family with an oscillation key, and the overrides of PhilipsAC1214
CommandFamilies ==
   {f \in Families : Cardinality(StatusKeys(f)) <= 2}
      \cup {PhilipsAC3836, PhilipsCX5120, PhilipsAC1214}

Init ==
   /\ family \in CommandFamilies
   /\ status \in Statuses(family)
   /\ FanIdle
   /\ NoTracker
   /\ NoSetup

\* the handler as a coroutine: the command, the steps left and what it has
\* done so far
Handler == [cmd |-> cmd, pre |-> pre, steps |-> steps, calls |-> calls,
            raised |-> raised, mutated |-> 0, notified |-> notified]

\* the handler ran from store st and stopped as r.task, leaving store r.status
Ran(r) ==
   /\ status' = r.status
   /\ cmd' = r.task.cmd
   /\ calls' = r.task.calls
   /\ raised' = r.task.raised
   /\ notified' = r.task.notified
   /\ steps' = r.task.steps

\* command c is issued while no handler is in flight: its handler runs to its
\* first await, or to its end when it awaits nothing
Started(c) ==
   /\ steps = <<>>
   /\ Ran(run(family, status, Task(family, status, c)))
   /\ pre' = status
   /\ delivered' = 0
   /\ UNCHANGED <<family, tracker_vars, setup_vars>>

\* the call the handler awaits returns: the handler runs on to its next
\* await or to its end
AwaitReturns ==
   /\ steps # <<>>
   /\ Ran(run(family, status, [Handler EXCEPT !.steps = Tail(@)]))
   /\ UNCHANGED <<family, pre, delivered, tracker_vars, setup_vars>>

\* the most statuses delivered from a command's issue to the next command or
\* to the update that follows its return
MaxDelivered == 1

\* the coordinator delivers a status, which replaces the Status Store; a
\* handler in flight stays suspended where it is
Poll ==
   /\ cmd = NoCommand \/ delivered < MaxDelivered
   /\ status' \in Delivered(family) \ {status}
   /\ pre' = status'
   /\ IF steps = <<>>
      THEN /\ cmd' = NoCommand
           /\ calls' = <<>>
           /\ raised' = None
           /\ notified' = 0
           /\ delivered' = 0
      ELSE /\ delivered' = delivered + 1
           /\ UNCHANGED <<cmd, calls, raised, notified>>
   /\ UNCHANGED <<family, steps, tracker_vars, setup_vars>>

TurnOn ==
   \E n \in {NoPercentage, 0, 1, 100} :
      \E p \in PresetArgs(family) \cup {None} :
         /\ (PresetGiven(p) /\ n # NoPercentage) => n = 100
         /\ Started(Command("turn_on", n, p, FALSE))

TurnOff == Started(Command("turn_off", NoPercentage, None, FALSE))

SetPresetMode ==
   \E p \in PresetArgs(family) : Started(Command("set_preset_mode", NoPercentage, p, FALSE))

SetPercentage ==
   \E n \in PercentageArgs(family) : Started(Command("set_percentage", n, None, FALSE))

Oscillate ==
   \E osc \in BOOLEAN : Started(Command("oscillate", NoPercentage, None, osc))

Next ==
   Poll \/ TurnOn \/ TurnOff \/ SetPresetMode \/ SetPercentage \/ Oscillate \/ AwaitReturns

Spec == Init /\ [][Next]_vars

-----------------------------------------------------------------------------
(* The filter alert sensor of one device *)

\* the values a delivered status gives the filter keys
FilterValues(k) ==
   IF k = "FILTER_PRE" THEN {71, 72}
   ELSE IF k = "FILTER_NANOPROTECT" THEN {10, 97, 99, 100}
   ELSE {-100, 0, 100, 200}

FilterKeys == {"FILTER_PRE", "FILTER_NANOPROTECT", "FILTER_NANOPROTECT_TOTAL"}

RECURSIVE FilterStatusesOver(_)
FilterStatusesOver(keys) ==
   IF keys = {} THEN {EmptyDict}
   ELSE LET k == CHOOSE x \in keys : TRUE
            rest == FilterStatusesOver(keys \ {k})
        IN  rest \cup {SetItem(s, k, v) : s \in rest, v \in FilterValues(k)}

FilterStatuses == FilterStatusesOver(FilterKeys)

\* the updates of one run of the model
MaxUpdates == 4

Count(events, k) == Cardinality({i \in 1..Len(events) : events[i].filter_key = k})

\* getattr(cls, name, default) for the i-th class of reversed(__mro__): the class's
\* own declaration, else the nearest ancestor's, else the default
RECURSIVE getattr(_, _, _, _)
getattr(mro, i, name, default) ==
   IF i = 0 THEN default
   ELSE IF name \in DOMAIN mro[i] THEN mro[i][name]
   ELSE getattr(mro, i - 1, name, default)

\* the list is replaced by each class's declaration, never extended
extend_along_replacing(mro, name, i) == IF i = 0 THEN <<>> ELSE getattr(mro, i, name, <<>>)

\* the loop over reversed(__mro__), up to its i-th class: the list is extended
\* by what getattr finds for each class
RECURSIVE extend_along(_, _, _)
extend_along(mro, name, i) == IF i = 0 THEN <<>> ELSE extend_along(mro, name, i - 1) \o getattr(mro, i, name, <<>>)

_collect_available_attributes(mro) == extend_along(mro, "AVAILABLE_ATTRIBUTES", Len(mro))

collect_available_binary_sensors(mro) ==
   extend_along(mro, "AVAILABLE_BINARY_SENSORS", Len(mro))

collect_unavailable_filters(mro) == extend_along(mro, "UNAVAILABLE_FILTERS", Len(mro))

\* what a class declares itself for the two fields async_setup_entry reads
Declaring(field, list) == SetItem(EmptyDict, field, list)

\* the repository's classes down to a generation's generic fan: PhilipsEntity,
\* PhilipsGenericControlBase, PhilipsGenericFanBase (AVAILABLE_BINARY_SENSORS
\* = []) and PhilipsGenericFan, PhilipsNewGenericFan or PhilipsNew2GenericFan;
\* the classes above them are Home Assistant's and declare neither field
GenericFanLineage ==
   <<EmptyDict, EmptyDict, Declaring("AVAILABLE_BINARY_SENSORS", <<>>), EmptyDict>>

\* the lineages of the repository's fan classes, by what each class declares
\* for the two fields
RepositoryLineages ==
   LET excluded == Declaring("UNAVAILABLE_FILTERS", <<"FILTER_NANOPROTECT_PREFILTER">>)
       ERROR_CODE == Declaring("AVAILABLE_BINARY_SENSORS", <<"ERROR_CODE">>)
       NEW2_ERROR_CODE == Declaring("AVAILABLE_BINARY_SENSORS", <<"NEW2_ERROR_CODE">>)
       NEW2_MODE_A ==
          Declaring("AVAILABLE_BINARY_SENSORS", <<"NEW2_ERROR_CODE", "NEW2_MODE_A">>)
   IN  {GenericFanLineage \o below :
          below \in {<<>>,                                      \* PhilipsGenericFan
                     <<EmptyDict>>,                             \* PhilipsAC1214
                     <<EmptyDict, EmptyDict>>,                  \* PhilipsAC2936
                     <<EmptyDict, EmptyDict, EmptyDict>>,       \* PhilipsAC3220
                     <<ERROR_CODE>>,                            \* PhilipsAC2729
                     <<excluded>>,                              \* PhilipsAC085011
                     <<excluded, EmptyDict>>,                   \* PhilipsAC085020
                     <<excluded, NEW2_ERROR_CODE>>,             \* PhilipsAC3420
                     <<excluded, NEW2_ERROR_CODE, EmptyDict>>,  \* PhilipsAC3421
                     <<NEW2_MODE_A>>,                           \* PhilipsAC3737
                     <<NEW2_ERROR_CODE>>,                       \* PhilipsHU1509
                     <<NEW2_ERROR_CODE, EmptyDict>>}}           \* PhilipsHU1510

\* async_setup_entry has run for a class of the repository: it has assembled
\* its two lists and creates the sensor when a filter is available
InitTracker ==
   /\ family = PhilipsGenericFan
   /\ reversed_mro \in RepositoryLineages
   /\ available_binary_sensors = collect_available_binary_sensors(reversed_mro)
   /\ unavailable_filters = collect_unavailable_filters(reversed_mro)
   /\ status \in {st \in FilterStatuses :
                     available_filters(st, unavailable_filters) # <<>>}
   /\ FanIdle
   /\ _filter_keys = available_filters(status, unavailable_filters)
   /\ _previous_alert_state = None
   /\ _previous_low_filters = {}
   /\ fired = <<>>
   /\ updates = 0
   /\ low_before = {}
   /\ run_len = [k \in DOMAIN FILTER_TYPES |-> 0]
   /\ run_alerts = [k \in DOMAIN FILTER_TYPES |-> 0]
   /\ startup_run = [k \in DOMAIN FILTER_TYPES |-> FALSE]
   /\ collected = FALSE
   /\ set_up = TRUE
   /\ _available_attributes = <<>>
   /\ _available_preset_modes = <<>>
   /\ _available_speeds = <<>>
   /\ device_attributes = <<>>
   /\ NoFlow
   /\ NoAsync

\* the coordinator delivers a status and the sensor's
\* _handle_coordinator_update runs on it
FilterAlertUpdate ==
   /\ updates < MaxUpdates
   /\ \E st \in FilterStatuses :
         LET low_filters_data == _get_low_filters(_filter_keys, st)
             current_low_filters == DOMAIN low_filters_data
             new == new_low_filters(_previous_alert_state, _previous_low_filters,
                                    current_low_filters)
         IN  /\ status' = st
             /\ \E order \in Orders(new) :
                   fired' = [i \in 1..Len(order) |->
                               filter_alert_event(order[i], low_filters_data)]
             /\ _previous_alert_state' =
                   stored_alert_state(_previous_alert_state, current_low_filters)
             /\ _previous_low_filters' =
                   stored_low_filters(_previous_alert_state, _previous_low_filters,
                                      current_low_filters)
             /\ updates' = updates + 1
             /\ low_before' =
                   IF updates = 0 THEN {}
                   ELSE DOMAIN _get_low_filters(_filter_keys, status)
             /\ run_len' = [k \in DOMAIN run_len |->
                              IF k \in current_low_filters THEN run_len[k] + 1 ELSE 0]
             /\ run_alerts' = [k \in DOMAIN run_alerts |->
                                 IF k \in current_low_filters /\ run_len[k] > 0
                                 THEN run_alerts[k] + Count(fired', k)
                                 ELSE Count(fired', k)]
             /\ startup_run' = [k \in DOMAIN startup_run |->
                                  /\ k \in current_low_filters
                                  /\ (updates = 0 \/ startup_run[k])]
   /\ pre' = status'
   /\ UNCHANGED <<family, cmd, calls, raised, notified, steps, delivered, _filter_keys,
                  setup_vars>>

NextTracker == FilterAlertUpdate

SpecTracker == InitTracker /\ [][NextTracker]_vars

-----------------------------------------------------------------------------
(* The current-preset projection over declarations whose patterns overlap. *)
(* No class of the repository declares two patterns that one status        *)
(* matches, or a REPLACE_PRESET; the projection is written for both, so it *)
(* is applied here to every declaration of up to MaxPresets patterns over  *)
(* two keys and two values, with and without a substitution, next to the   *)
(* declared families.                                                      *)

MaxPresets == 3

HypotheticalPatterns ==
   {<< <<"K1", v>> >> : v \in {"a", "b"}}
      \cup {<< <<"K2", v>> >> : v \in {"a", "b"}}
      \cup {<< <<"K1", v>>, <<"K2", w>> >> : v \in {"a", "b"}, w \in {"a", "b"}}

HypotheticalNames == <<"P1", "P2", "P3", "P4", "P5", "P6">>

HypotheticalTables ==
   UNION {{[i \in 1..n |-> [name |-> HypotheticalNames[i], pattern |-> t[i]]] :
             t \in [1..n -> HypotheticalPatterns]} : n \in 1..MaxPresets}

HypotheticalFamilies ==
   {[cls |-> "Hypothetical",
     KEY_PHILIPS_POWER |-> "K1", STATE_POWER_ON |-> "a", STATE_POWER_OFF |-> "b",
     AVAILABLE_PRESET_MODES |-> t,
     AVAILABLE_SPEEDS |-> <<>>,
     REPLACE_PRESET |-> r, REPLACE_SPEED |-> <<>>,
     KEY_OSCILLATION |-> <<>>] :
      t \in HypotheticalTables, r \in {<<>>, <<"K1", "K3">>}}

InitProjection ==
   /\ family \in Families \cup HypotheticalFamilies
   /\ status \in Statuses(family)
   /\ FanIdle
   /\ NoTracker
   /\ NoSetup

NextProjection == Poll

SpecProjection == InitProjection /\ [][NextProjection]_vars

-----------------------------------------------------------------------------
(* Current preset (C1) *)

\* the entries of the preset table whose every (key, value) item equals the
\* status at the key, the key replaced when it is REPLACE_PRESET's source
FullMatches(f, st) ==
   {i \in 1..Len(f.AVAILABLE_PRESET_MODES) :
      \A j \in 1..Len(f.AVAILABLE_PRESET_MODES[i].pattern) :
         LET k  == f.AVAILABLE_PRESET_MODES[i].pattern[j][1]
             v  == f.AVAILABLE_PRESET_MODES[i].pattern[j][2]
             rk == IF f.REPLACE_PRESET # <<>> /\ f.REPLACE_PRESET[1] = k
                   THEN f.REPLACE_PRESET[2] ELSE k
         IN  rk \in DOMAIN st /\ st[rk] = v}

\* the family with the declarations at positions i and j exchanged
SwapDeclarations(f, i, j) ==
   LET T == f.AVAILABLE_PRESET_MODES
   IN  [f EXCEPT !.AVAILABLE_PRESET_MODES =
           [x \in 1..Len(T) |-> IF x = i THEN T[j] ELSE IF x = j THEN T[i] ELSE T[x]]]

\* C1: for every family and status the current preset is the name of the
\* first declared pattern that fully matches (after the REPLACE_PRESET
\* substitution) and None when none matches; when a later pattern matches
\* too, exchanging the two declarations makes the later one's name the result.
C1_CurrentPresetIsFirstFullMatch ==
   LET T == family.AVAILABLE_PRESET_MODES
       M == FullMatches(family, status)
   IN  /\ M = {} => preset_mode(family, status) = None
       /\ \A i \in M :
             (\A x \in M : i <= x) =>
                /\ preset_mode(family, status) = T[i].name
                /\ \A j \in M \ {i} :
                      /\ T[j].name # T[i].name
                      /\ preset_mode(SwapDeclarations(family, i, j), status) = T[j].name

\* two patterns match, an earlier one does not, and the first match reads
\* the substituted key
C1_Witness ==
   LET T == family.AVAILABLE_PRESET_MODES
       M == FullMatches(family, status)
   IN  /\ family.REPLACE_PRESET # <<>>
       /\ Cardinality(M) >= 2
       /\ 1 \notin M
       /\ \E i \in M : (\A x \in M : i <= x) /\ T[i].pattern[1][1] = family.REPLACE_PRESET[1]
       /\ status[family.REPLACE_PRESET[1]] # status[family.REPLACE_PRESET[2]]
       /\ preset_mode(family, status) # None

-----------------------------------------------------------------------------
(* Commands (C2 to C7) *)

Commands == {"turn_on", "turn_off", "set_preset_mode", "set_percentage", "oscillate"}

PowerOffWrite == set_control_value(family.KEY_PHILIPS_POWER, family.STATE_POWER_OFF)

PowerOnWrite == set_control_value(family.KEY_PHILIPS_POWER, family.STATE_POWER_ON)

\* the last command's handler has run to its end, or has raised
Returned == cmd.op \in Commands /\ steps = <<>>

\* ... and the coordinator delivered no status since the command was issued
Undisturbed == Returned /\ delivered = 0

\* the command run alone leaves what its handler leaves when run in one piece
ReturnsAsInOnePiece ==
   Undisturbed =>
      LET r == IF cmd.op = "turn_on"
               THEN async_turn_on(family, pre, cmd.percentage, cmd.preset_mode)
               ELSE IF cmd.op = "turn_off" THEN async_turn_off(family, pre)
               ELSE IF cmd.op = "set_preset_mode"
               THEN async_set_preset_mode(family, pre, cmd.preset_mode)
               ELSE IF cmd.op = "set_percentage"
               THEN async_set_percentage(family, pre, cmd.percentage)
               ELSE async_oscillate(family, pre, cmd.oscillating)
      IN  /\ status = r.status
          /\ calls = r.calls
          /\ raised = r.raised
          /\ notified = r.notified

\* the positions of the transport writes among the awaited calls
Writes(cs) == {i \in 1..Len(cs) : cs[i].op # "sleep"}

\* what the transport received, in order
TransportWrites(cs) == SelectSeq(cs, LAMBDA c : c.op # "sleep")

\* C2: set-preset p writes every item of a declared p's pattern in one
\* batched call and no item in a call of its own; for an undeclared p it
\* writes nothing, leaves the Status Store as it was and raises nothing.
C2_SetPresetBatchedOrNoOp ==
   (cmd.op = "set_preset_mode" /\ Undisturbed) =>
      LET status_pattern == TableGet(family.AVAILABLE_PRESET_MODES, cmd.preset_mode)
      IN  IF status_pattern # <<>>
          THEN /\ Cardinality({i \in Writes(calls) :
                                 calls[i] = set_control_values(status_pattern)}) = 1
               /\ \A i \in Writes(calls) :
                     calls[i].op = "set_control_value" =>
                        \A j \in 1..Len(status_pattern) :
                           calls[i].data[1][1] # status_pattern[j][1]
          ELSE TransportWrites(calls) = <<>> /\ status = pre /\ raised = None

\* C3: when a command has returned, the Status Store holds, for every key
\* the command wrote to the transport, the value it wrote last, and the
\* projections read the commanded state: power off after turn off and after
\* percentage 0, power on after a bare turn on, preset p after setting a
\* declared p, the speed's percentage after setting a percentage above 0.
C3_WritesReachTheStore ==
   (Undisturbed /\ raised = None) =>
      /\ \A i \in Writes(calls) : \A j \in 1..Len(calls[i].data) :
            (\A i2 \in Writes(calls) : \A j2 \in 1..Len(calls[i2].data) :
                calls[i2].data[j2][1] = calls[i].data[j][1] => i2 <= i)
               => Get(status, calls[i].data[j][1]) = calls[i].data[j][2]
      /\ cmd.op = "turn_off" => ~is_on(family, status)
      /\ (cmd.op = "turn_on" /\ ~PresetGiven(cmd.preset_mode)
            /\ ~PercentageGiven(cmd.percentage)) => is_on(family, status)
      /\ (cmd.op \in {"turn_on", "set_preset_mode"}
            /\ TableGet(family.AVAILABLE_PRESET_MODES, cmd.preset_mode) # <<>>)
            => preset_mode(family, status) = cmd.preset_mode
      /\ (cmd.op = "set_percentage" /\ cmd.percentage = 0) => ~is_on(family, status)
      /\ (cmd.op = "set_percentage" /\ cmd.percentage > 0)
            => percentage(family, status) =
                  ordered_list_item_to_percentage(
                     Names(family.AVAILABLE_SPEEDS),
                     percentage_to_ordered_list_item(Names(family.AVAILABLE_SPEEDS),
                                                     cmd.percentage))

\* C4: with N >= 1 declared speeds, set-percentage with the percentage of
\* ordinal i, then reading the percentage with no update in between, gives
\* the percentage of ordinal i, from every status.
C4_PercentageRoundTrip ==
   LET N == Len(family.AVAILABLE_SPEEDS)
   IN  (/\ cmd.op = "set_percentage"
        /\ Undisturbed
        /\ \E i \in 1..N : cmd.percentage = (i * 100) \div N)
          => percentage(family, status) = cmd.percentage

\* C5: set-percentage 0 is turn off: its only awaited call is the write
\* power key = power-off value, whether the device is on or off.
C5_PercentageZeroIsTurnOff ==
   (cmd.op = "set_percentage" /\ cmd.percentage = 0 /\ Undisturbed)
      => calls = <<PowerOffWrite>>

\* the stores a turn off leaves: the power key holds the power-off value
LeftByTurnOff(st) == Get(st, family.KEY_PHILIPS_POWER) = family.STATE_POWER_OFF

\* C6: turn off and then turn on with no argument: power reads off after
\* the first and on after the second, the transport got the power-off write
\* and then the power-on write and nothing else, and no key of the Status
\* Store but the power key differs from before the turn off.  Stated on each
\* of the two commands, the turn on being one issued from a store a turn off
\* leaves.
C6_OffThenOn ==
   /\ (cmd.op = "turn_off" /\ Undisturbed)
         => /\ ~is_on(family, status)
            /\ TransportWrites(calls) = <<PowerOffWrite>>
            /\ \A k \in DOMAIN pre \ {family.KEY_PHILIPS_POWER} : status[k] = pre[k]
   /\ (/\ cmd.op = "turn_on"
       /\ ~PresetGiven(cmd.preset_mode)
       /\ cmd.percentage = NoPercentage
       /\ Undisturbed
       /\ LeftByTurnOff(pre))
         => /\ is_on(family, status)
            /\ TransportWrites(calls) = <<PowerOnWrite>>
            /\ \A k \in DOMAIN pre \ {family.KEY_PHILIPS_POWER} : status[k] = pre[k]

\* C7: turn on with a declared preset p does what set-preset p does from
\* the same status, and turn on with a percentage n in 1..100 what
\* set-percentage n does: the same transport writes in the same order and
\* the same Status Store.
C7_TurnOnDelegates ==
   (cmd.op = "turn_on" /\ Undisturbed) =>
      /\ TableGet(family.AVAILABLE_PRESET_MODES, cmd.preset_mode) # <<>>
            => /\ TransportWrites(calls) =
                     TransportWrites(async_set_preset_mode(family, pre, cmd.preset_mode).calls)
               /\ status = async_set_preset_mode(family, pre, cmd.preset_mode).status
      /\ (~PresetGiven(cmd.preset_mode) /\ cmd.percentage \in 1..100)
            => /\ TransportWrites(calls) =
                     TransportWrites(async_set_percentage(family, pre, cmd.percentage).calls)
               /\ status = async_set_percentage(family, pre, cmd.percentage).status

-----------------------------------------------------------------------------
(* Filter alert tracker (C8, C9, C10) *)

LowNow == DOMAIN _get_low_filters(_filter_keys, status)

\* the integer nearest to num / den, the even one of two equally near
NearestTiesEven(num, den) ==
   CHOOSE p \in 0..(100 * 100) :
      \/ 2 * num - 2 * p * den < den /\ 2 * p * den - 2 * num < den
      \/ (2 * num - 2 * p * den = den \/ 2 * p * den - 2 * num = den) /\ p % 2 = 0

\* the value an alert for filter k carries: the rounded percentage when the
\* type's total is used, else the raw remaining value
AlertValue(k) ==
   IF FILTER_TYPES[k].total # None /\ FILTER_TYPES[k].total \in DOMAIN status
   THEN NearestTiesEven(100 * status[k], status[FILTER_TYPES[k].total])
   ELSE status[k]

\* C8: the first update the tracker handles fires no alert event,
\* whichever filters are low in it.
C8_FirstUpdateFiresNothing == updates = 1 => fired = <<>>

C8_Witness == updates = 1 /\ LowNow = {"FILTER_PRE", "FILTER_NANOPROTECT"} /\ fired = <<>>

\* C9: an update after the first fires exactly one event for each filter
\* that is low now and was not low at the update before, and none for any
\* other key; the event carries the key, the value computed for the filter
\* in the current status and the fixed threshold.
C9_OneEventPerNewlyLowFilter ==
   updates >= 2 =>
      /\ \A k \in DOMAIN FILTER_TYPES :
            Count(fired, k) = IF k \in LowNow \ low_before THEN 1 ELSE 0
      /\ \A i \in 1..Len(fired) :
            /\ fired[i].filter_key \in DOMAIN FILTER_TYPES
            /\ fired[i].percentage = AlertValue(fired[i].filter_key)
            /\ fired[i].threshold = FILTER_ALERT_THRESHOLD

\* one filter newly low at 97 of 200 (48.5 percent, fired as 48), the other
\* low before and still low, with no event
C9_Witness ==
   /\ updates >= 2
   /\ "FILTER_PRE" \in LowNow \cap low_before
   /\ fired = <<[filter_key |-> "FILTER_NANOPROTECT", percentage |-> 48,
                 threshold |-> FILTER_ALERT_THRESHOLD]>>

\* C10: every update, the first included, stores the current low set as the
\* previous one; so a filter gets at most one alert per run of updates that
\* see it low, the alert comes at the first update of the run, the run
\* already going at the first update gets none, and a run that started
\* later has got its one.
C10_OneAlertPerLowRun ==
   /\ updates >= 1 => _previous_low_filters = LowNow
   /\ \A k \in DOMAIN run_alerts :
         /\ run_alerts[k] <= 1
         /\ Count(fired, k) > 0 => run_len[k] = 1
         /\ startup_run[k] => run_alerts[k] = 0
         /\ (run_len[k] > 0 /\ ~startup_run[k]) => run_alerts[k] = 1

\* one filter low since the first update and never alerted, the other
\* alerted once in a run that has lasted two updates
C10_Witness ==
   /\ updates >= 3
   /\ startup_run["FILTER_PRE"] /\ run_alerts["FILTER_PRE"] = 0
   /\ run_len["FILTER_NANOPROTECT"] >= 2 /\ run_alerts["FILTER_NANOPROTECT"] = 1

-----------------------------------------------------------------------------
(* Filter lowness (C11) *)

\* the keys the tracker follows that the current status holds
TrackedNow == {_filter_keys[i] : i \in 1..Len(_filter_keys)} \cap DOMAIN status

DeclaresTotal(k) == FILTER_TYPES[k].total # None

TotalPresent(k) == DeclaresTotal(k) /\ FILTER_TYPES[k].total \in DOMAIN status

\* C11 as stated: a tracked filter whose type declares a total is low
\* exactly when its rounded percentage of the total is strictly below the
\* threshold, one whose type declares none exactly when its remaining value
\* is strictly below 72; the raw rule is not used for a type that declares
\* a total.
C11_LowByDeclaredRule ==
   \A k \in TrackedNow :
      IF DeclaresTotal(k)
      THEN k \in LowNow <=>
              /\ TotalPresent(k)
              /\ status[FILTER_TYPES[k].total] > 0
              /\ NearestTiesEven(100 * status[k], status[FILTER_TYPES[k].total])
                    < FILTER_ALERT_THRESHOLD
      ELSE k \in LowNow <=> status[k] < RAW_HOURS_LOW

\* C11 amended: the percentage rule decides when the type declares a total
\* and the status holds the total key (a total of 0 or less is never low);
\* the raw rule decides when the type declares no total or the status lacks
\* the total key.
C11_LowByAvailableRule ==
   \A k \in TrackedNow :
      IF TotalPresent(k)
      THEN k \in LowNow <=>
              /\ status[FILTER_TYPES[k].total] > 0
              /\ NearestTiesEven(100 * status[k], status[FILTER_TYPES[k].total])
                    < FILTER_ALERT_THRESHOLD
      ELSE k \in LowNow <=> status[k] < RAW_HOURS_LOW

\* after an update: 99 of 200 rounds to the threshold and is not low, while
\* 71 raw hours is low
C11_Witness ==
   /\ updates >= 1
   /\ TrackedNow = {"FILTER_PRE", "FILTER_NANOPROTECT"}
   /\ TotalPresent("FILTER_NANOPROTECT")
   /\ status["FILTER_NANOPROTECT"] = 99
   /\ status["FILTER_NANOPROTECT_TOTAL"] = 200
   /\ status["FILTER_PRE"] = 71
   /\ LowNow = {"FILTER_PRE"}

-----------------------------------------------------------------------------
(* Config flow: helpers.extract_name, extract_model and                    *)
(* PhilipsAirPurifierConfigFlow.  Here a Python str is the sequence of its *)
(* characters, None is PyNone, and a status is a function whose DOMAIN is  *)
(* the keys it holds.                                                      *)

PyNone == <<"None">>

\* Python truthiness of a str or None
Truthy(v) == v # PyNone /\ v # <<>>

\* status.get(key)
StatusGet(st, key) == IF key \in DOMAIN st THEN st[key] ELSE PyNone

\* s[:n]
Slice(s, n) == SubSeq(s, 1, IF Len(s) < n THEN Len(s) ELSE n)

\* the value of the first key holding a truthy value, PyNone when none does
RECURSIVE FirstTruthy(_, _)
FirstTruthy(keys, st) ==
   IF keys = <<>> THEN PyNone
   ELSE IF Truthy(StatusGet(st, Head(keys))) THEN StatusGet(st, Head(keys))
   ELSE FirstTruthy(Tail(keys), st)

extract_name(st) ==
   LET name == FirstTruthy(<<"NAME", "NEW_NAME", "NEW2_NAME">>, st)
   IN  IF name # PyNone THEN name ELSE <<>>

\* without the cut to 9 characters
extract_model_uncut(st) ==
   LET model == FirstTruthy(<<"MODEL_ID", "NEW_MODEL_ID", "NEW2_MODEL_ID">>, st)
   IN  IF model # PyNone THEN model ELSE <<>>

extract_model(st) ==
   LET model == FirstTruthy(<<"MODEL_ID", "NEW_MODEL_ID", "NEW2_MODEL_ID">>, st)
   IN  IF model # PyNone THEN Slice(model, 9) ELSE <<>>

\* s.split("@")[0]
RECURSIVE SplitAtHead(_)
SplitAtHead(s) ==
   IF s = <<>> \/ Head(s) = "@" THEN <<>>
   ELSE <<Head(s)>> \o SplitAtHead(Tail(s))

\* the first candidate that is registered, PyNone when none is
RECURSIVE FirstRegistered(_, _)
FirstRegistered(candidates, registry) ==
   IF candidates = <<>> THEN PyNone
   ELSE IF Head(candidates) \in registry THEN Head(candidates)
   ELSE FirstRegistered(Tail(candidates), registry)

\* the family prefix tried before the exact model
_resolve_model_family_first(model, wifi_version, registry) ==
   IF wifi_version = PyNone THEN [resolved |-> PyNone, raised |-> "AttributeError"]
   ELSE LET model_family == Slice(model, 6)
            model_long == model \o <<" ">> \o SplitAtHead(wifi_version)
        IN  [resolved |-> FirstRegistered(<<model_family, model_long, model>>, registry),
             raised |-> None]

\* _wifi_version.split raises AttributeError on None
_resolve_model(model, wifi_version, registry) ==
   IF wifi_version = PyNone THEN [resolved |-> PyNone, raised |-> "AttributeError"]
   ELSE LET model_family == Slice(model, 6)
            model_long == model \o <<" ">> \o SplitAtHead(wifi_version)
        IN  [resolved |-> FirstRegistered(<<model, model_long, model_family>>, registry),
             raised |-> None]

\* the fields _extract_device_info has assigned when it returns or raises:
\* status[PhilipsApi.DEVICE_ID] raises KeyError before _status is assigned
_extract_device_info(st, old_status) ==
   [_model |-> extract_model(st),
    _wifi_version |-> StatusGet(st, "WIFI_VERSION"),
    _name |-> extract_name(st),
    _status |-> IF "DEVICE_ID" \in DOMAIN st THEN st ELSE old_status,
    raised |-> IF "DEVICE_ID" \in DOMAIN st THEN None ELSE "KeyError"]

\* what a flow step gives back: a form with its errors, an abort with its
\* reason, a created entry with its model and title, or an exception
FlowResult(type, detail, model, title) ==
   [type |-> type, detail |-> detail, model |-> model, title |-> title]

\* async_step_confirm: with user input the entry is created under the flow's
\* model and name, without it the confirmation form is shown
async_step_confirm(user_input, model, name) ==
   IF user_input
   THEN FlowResult("create_entry", "", model, model \o <<" ">> \o name)
   ELSE FlowResult("form", "confirm", model, model \o <<" ">> \o name)

\* async_step_user shows the menu of the two ways to add a device
async_step_user == FlowResult("menu", "user", PyNone, PyNone)

\* async_step_manual: without user input the form with no error; with it,
\* after the fetch came back as env.fetch and with the device's id
\* configured already or not
async_step_manual(env, st, old_status, registry) ==
   IF ~env.user_input THEN FlowResult("form", "manual", PyNone, PyNone)
   ELSE IF ~env.host_valid THEN FlowResult("form", "host", PyNone, PyNone)
   ELSE IF env.fetch = "TimeoutError" THEN FlowResult("abort", "timeout", PyNone, PyNone)
   ELSE IF env.fetch = "Exception" THEN FlowResult("form", "connect", PyNone, PyNone)
   ELSE LET info == _extract_device_info(st, old_status)
            r == _resolve_model(info._model, info._wifi_version, registry)
        IN  IF info.raised # None THEN FlowResult("raised", info.raised, PyNone, PyNone)
            ELSE IF r.raised # None THEN FlowResult("raised", r.raised, PyNone, PyNone)
            ELSE IF r.resolved = PyNone
                 THEN FlowResult("abort", "model_unsupported", PyNone, PyNone)
            ELSE IF env.configured
                 THEN FlowResult("abort", "already_configured", PyNone, PyNone)
            ELSE FlowResult("create_entry", "", r.resolved,
                            r.resolved \o <<" ">> \o info._name)

\* async_step_dhcp on a discovered address, after the fetch came back as
\* env.fetch; the step ends in async_step_confirm, which shows its form
async_step_dhcp(env, st, old_status, registry) ==
   IF env.fetch = "TimeoutError"
   THEN FlowResult("abort", "model_unsupported", PyNone, PyNone)
   ELSE IF env.fetch = "Exception" THEN FlowResult("abort", "timeout", PyNone, PyNone)
   ELSE LET info == _extract_device_info(st, old_status)
            r == _resolve_model(info._model, info._wifi_version, registry)
        IN  IF info.raised # None THEN FlowResult("raised", info.raised, PyNone, PyNone)
            ELSE IF r.raised # None THEN FlowResult("raised", r.raised, PyNone, PyNone)
            ELSE IF r.resolved = PyNone
                 THEN FlowResult("abort", "model_unsupported", PyNone, PyNone)
            ELSE IF env.configured
                 THEN FlowResult("abort", "already_configured", PyNone, PyNone)
            ELSE async_step_confirm(FALSE, r.resolved, info._name)

\* async_step_ssdp: no host in the discovery info aborts, and from the fetch
\* on the step's statements are those of async_step_dhcp
async_step_ssdp(env, st, old_status, registry) ==
   IF ~env.host_valid THEN FlowResult("abort", "no_host", PyNone, PyNone)
   ELSE async_step_dhcp(env, st, old_status, registry)

\* the first discovered device at the address, <<>> when there is none
RECURSIVE FirstDevice(_, _)
FirstDevice(devices, ip) ==
   IF devices = <<>> THEN <<>>
   ELSE IF Head(devices).ip = ip THEN Head(devices)
   ELSE FirstDevice(Tail(devices), ip)

\* async_step_pick_device: without user input the form over the discovered
\* devices; with it the entry of the device at the selected address
async_step_pick_device(user_input, configured, devices, registry) ==
   IF user_input = None THEN FlowResult("form", "pick_device", PyNone, PyNone)
   ELSE LET device == FirstDevice(devices, user_input)
        IN  IF device = <<>> THEN FlowResult("abort", "device_not_found", PyNone, PyNone)
            ELSE LET info == _extract_device_info(device.status, device.status)
                     r == _resolve_model(info._model, info._wifi_version, registry)
                 IN  IF info.raised # None
                     THEN FlowResult("raised", info.raised, PyNone, PyNone)
                     ELSE IF r.raised # None
                     THEN FlowResult("raised", r.raised, PyNone, PyNone)
                     ELSE IF r.resolved = PyNone
                     THEN FlowResult("abort", "model_unsupported", PyNone, PyNone)
                     ELSE IF configured
                     THEN FlowResult("abort", "already_configured", PyNone, PyNone)
                     ELSE FlowResult("create_entry", "", r.resolved,
                                     r.resolved \o <<" ">> \o info._name)

\* async_step_scan_done: no discovered device aborts, else the pick form
async_step_scan_done(devices, registry) ==
   IF devices = <<>> THEN FlowResult("abort", "no_devices_found", PyNone, PyNone)
   ELSE async_step_pick_device(None, FALSE, devices, registry)

\* async_step_scan: progress while nothing is discovered, else scan_done
async_step_scan(devices, registry) ==
   IF devices = <<>> THEN FlowResult("progress", "scan", PyNone, PyNone)
   ELSE async_step_scan_done(devices, registry)

\* async_step_scanning keeps the scanned devices whose status holds no
\* "DeviceId" of a configured entry
unconfigured_devices(all_devices, configured_ids) ==
   SelectSeq(all_devices, LAMBDA d : StatusGet(d.status, "DeviceId") \notin configured_ids)

-----------------------------------------------------------------------------
(* The config flow's steps *)

\* "AC3033/10"
AC3033_10 == <<"A", "C", "3", "0", "3", "3", "/", "1", "0">>

\* "AC3033/10_EXTRA"
AC3033_10_EXTRA == <<"A", "C", "3", "0", "3", "3", "/", "1", "0", "_", "E", "X", "T", "R", "A">>

\* "AC3033"
AC3033 == <<"A", "C", "3", "0", "3", "3">>

\* "AC30"
AC30 == <<"A", "C", "3", "0">>

\* "AC3033/10 W", "AC3033 W", "AC3033/10 ", "AC30 W": model, space, token
AC3033_10_W == AC3033_10 \o <<" ", "W">>

AC3033_W == AC3033 \o <<" ", "W">>

AC3033_10_ == AC3033_10 \o <<" ">>

AC30_W == AC30 \o <<" ", "W">>

\* candidate registry keys
RegistryKeys == {AC3033_10, AC3033_10_W, AC3033, AC3033_W, AC3033_10_, AC30_W}

\* the WiFi versions a status may hold: "W@1", "W", "@1", ""
WifiVersions == {<<"W", "@", "1">>, <<"W">>, <<"@", "1">>, <<>>}

FlowStatusValues(key) ==
   IF key = "MODEL_ID" THEN {AC3033_10, AC3033_10_EXTRA, AC3033, AC30}
   ELSE IF key = "WIFI_VERSION" THEN WifiVersions
   ELSE IF key = "NAME" THEN {<<"n">>}
   ELSE {<<"i", "d">>}

RECURSIVE FlowStatusesOver(_)
FlowStatusesOver(keys) ==
   IF keys = {} THEN {EmptyDict}
   ELSE LET k == CHOOSE x \in keys : TRUE
            rest == FlowStatusesOver(keys \ {k})
        IN  rest \cup {SetItem(st, k, v) : st \in rest, v \in FlowStatusValues(k)}

FlowStatuses == FlowStatusesOver({"MODEL_ID", "WIFI_VERSION", "NAME", "DEVICE_ID"})

\* what a step that fetches meets
FlowEnvs == [user_input : {TRUE}, host_valid : BOOLEAN,
             fetch : {"none", "ok", "TimeoutError", "Exception"}, configured : BOOLEAN]

\* the inputs of such a step: the fetch is tried for a valid host only, and
\* only a fetch that returns gives a status and lets the id be looked up
FlowInputs ==
   {x \in FlowEnvs \X FlowStatuses :
      /\ x[1].fetch = "none" <=> ~x[1].host_valid
      /\ x[1].fetch # "ok" => x[2] = EmptyDict /\ ~x[1].configured}

\* what a step that does not fetch meets
Met(step, user_input, configured, st) ==
   [step |-> step, user_input |-> user_input, host_valid |-> FALSE, fetch |-> "none",
    configured |-> configured, status |-> st]

\* the most devices one scan finds
MaxDiscovered == 2

\* the addresses of the scanned network and one that is not scanned
ScannedIps == <<"192.168.1.7", "192.168.1.8", "192.168.1.9">>

UnknownIp == "10.0.0.1"

\* "DeviceId" is the key async_step_scanning reads
ScanStatusValues(key) ==
   IF key = "MODEL_ID" THEN {AC3033_10, AC30}
   ELSE IF key = "WIFI_VERSION" THEN {<<"W", "@", "1">>}
   ELSE {<<"i", "d">>}

RECURSIVE ScanStatusesOver(_)
ScanStatusesOver(keys) ==
   IF keys = {} THEN {EmptyDict}
   ELSE LET k == CHOOSE x \in keys : TRUE
            rest == ScanStatusesOver(keys \ {k})
        IN  rest \cup {SetItem(st, k, v) : st \in rest, v \in ScanStatusValues(k)}

\* _check_single_ip reports a device only for a non-empty status; here every
\* scanned device has a name
ScanStatuses ==
   {SetItem(st, "NAME", <<"n">>) :
      st \in ScanStatusesOver({"MODEL_ID", "WIFI_VERSION", "DEVICE_ID", "DeviceId"})}

\* what scan_for_devices returns: devices at distinct addresses
ScanResults ==
   UNION {[1..n -> ScanStatuses] : n \in 0..MaxDiscovered}

Devices(statuses) ==
   [i \in 1..Len(statuses) |->
      [ip |-> ScannedIps[i], model |-> extract_model(statuses[i]),
       name |-> extract_name(statuses[i]), status |-> statuses[i]]]

\* the results after which the flow manager calls a step again
ManualForm == {FlowResult("form", d, PyNone, PyNone) : d \in {"manual", "host", "connect"}}

Scanning == {FlowResult("progress", "scan", PyNone, PyNone),
             FlowResult("progress_done", "scan_done", PyNone, PyNone)}

\* PhilipsAirPurifierConfigFlow.__init__, with some registry
InitFlow ==
   /\ family = PhilipsGenericFan
   /\ status = [POWER |-> None]
   /\ FanIdle
   /\ NoTracker
   /\ NoClass
   /\ NoAsync
   /\ model_to_class \in SUBSET RegistryKeys
   /\ flow_env = <<>>
   /\ _discovered_devices = <<>>
   /\ _status = PyNone
   /\ _model = PyNone
   /\ _wifi_version = PyNone
   /\ _name = PyNone
   /\ flow_result = <<>>

\* the user starts the flow: the menu
UserStep ==
   /\ flow_result = <<>>
   /\ flow_env' = Met("user", FALSE, FALSE, EmptyDict)
   /\ flow_result' = async_step_user
   /\ UNCHANGED <<status, fan_vars, tracker_vars, model_to_class, _discovered_devices,
                  _status, _model, _wifi_version, _name, class_vars, async_vars>>

\* the user picks manual entry in the menu: the empty form
ManualFormStep ==
   /\ flow_result = async_step_user
   /\ flow_env' = Met("manual", FALSE, FALSE, EmptyDict)
   /\ flow_result' = async_step_manual(Met("manual", FALSE, FALSE, EmptyDict), EmptyDict,
                                       _status, model_to_class)
   /\ UNCHANGED <<status, fan_vars, tracker_vars, model_to_class, _discovered_devices,
                  _status, _model, _wifi_version, _name, class_vars, async_vars>>

\* the user submits the manual form
ManualStep ==
   /\ flow_result \in ManualForm
   /\ \E x \in FlowInputs :
         LET env == x[1]
             st == x[2]
             reached == env.host_valid /\ env.fetch = "ok"
             info == _extract_device_info(st, _status)
         IN  /\ flow_env' = [step |-> "manual", user_input |-> TRUE,
                             host_valid |-> env.host_valid,
                             fetch |-> env.fetch, configured |-> env.configured,
                             status |-> st]
             /\ flow_result' = async_step_manual(env, st, _status, model_to_class)
             /\ _model' = IF reached THEN info._model ELSE _model
             /\ _wifi_version' = IF reached THEN info._wifi_version ELSE _wifi_version
             /\ _name' = IF reached THEN info._name ELSE _name
             /\ _status' = IF reached THEN info._status ELSE _status
   /\ UNCHANGED <<status, fan_vars, tracker_vars, model_to_class, _discovered_devices,
                  class_vars, async_vars>>

\* the user picks the scan in the menu, or the flow manager calls the step
\* again while the scan is in progress
ScanStep ==
   /\ flow_result = async_step_user \/ flow_result \in Scanning
   /\ flow_env' = Met("scan", FALSE, FALSE, EmptyDict)
   /\ flow_result' = async_step_scan(_discovered_devices, model_to_class)
   /\ UNCHANGED <<status, fan_vars, tracker_vars, model_to_class, _discovered_devices,
                  _status, _model, _wifi_version, _name, class_vars, async_vars>>

\* the scan runs: scan_for_devices returns and the devices of configured
\* entries are left out
ScanningStep ==
   /\ flow_result = FlowResult("progress", "scan", PyNone, PyNone)
   /\ \E found \in ScanResults : \E configured_ids \in SUBSET {<<"i", "d">>} :
         /\ flow_env' = Met("scanning", FALSE, configured_ids # {}, EmptyDict)
         /\ _discovered_devices' = unconfigured_devices(Devices(found), configured_ids)
   /\ flow_result' = FlowResult("progress_done", "scan_done", PyNone, PyNone)
   /\ UNCHANGED <<status, fan_vars, tracker_vars, model_to_class,
                  _status, _model, _wifi_version, _name, class_vars, async_vars>>

\* the scan is done
ScanDoneStep ==
   /\ flow_result = FlowResult("progress_done", "scan_done", PyNone, PyNone)
   /\ flow_env' = Met("scan_done", FALSE, FALSE, EmptyDict)
   /\ flow_result' = async_step_scan_done(_discovered_devices, model_to_class)
   /\ UNCHANGED <<status, fan_vars, tracker_vars, model_to_class, _discovered_devices,
                  _status, _model, _wifi_version, _name, class_vars, async_vars>>

\* the user submits the pick form with an address: the status of the device
\* found is assigned before _extract_device_info reads it
PickDeviceStep ==
   /\ flow_result = FlowResult("form", "pick_device", PyNone, PyNone)
   /\ \E selected_ip \in {ScannedIps[i] : i \in 1..MaxDiscovered} \cup {UnknownIp} :
      \E configured \in BOOLEAN :
         LET device == FirstDevice(_discovered_devices, selected_ip)
             found == device # <<>>
             st == IF found THEN device.status ELSE EmptyDict
             info == _extract_device_info(st, st)
         IN  /\ flow_env' = Met("pick_device", TRUE, configured, st)
             /\ flow_result' = async_step_pick_device(selected_ip, configured,
                                                      _discovered_devices, model_to_class)
             /\ _model' = IF found THEN info._model ELSE _model
             /\ _wifi_version' = IF found THEN info._wifi_version ELSE _wifi_version
             /\ _name' = IF found THEN info._name ELSE _name
             /\ _status' = IF found THEN st ELSE _status
   /\ UNCHANGED <<status, fan_vars, tracker_vars, model_to_class, _discovered_devices,
                  class_vars, async_vars>>

\* the user confirms a discovered device
ConfirmStep ==
   /\ flow_result # <<>>
   /\ flow_result.type = "form"
   /\ flow_result.detail = "confirm"
   /\ flow_env' = [flow_env EXCEPT !.step = "confirm", !.user_input = TRUE]
   /\ flow_result' = async_step_confirm(TRUE, _model, _name)
   /\ UNCHANGED <<status, fan_vars, tracker_vars, model_to_class, _discovered_devices,
                  _status, _model, _wifi_version, _name, class_vars, async_vars>>

\* what a discovery step leaves in the flow's fields: _extract_device_info's
\* assignments once the fetch returned, and the resolved model over _model
DiscoveryStep(step, env, st, result) ==
   LET reached == (step = "dhcp" \/ env.host_valid) /\ env.fetch = "ok"
       info == _extract_device_info(st, _status)
       r == _resolve_model(info._model, info._wifi_version, model_to_class)
       resolved == info.raised = None /\ r.raised = None /\ r.resolved # PyNone
   IN  /\ flow_env' = [step |-> step, user_input |-> TRUE, host_valid |-> env.host_valid,
                       fetch |-> env.fetch, configured |-> env.configured, status |-> st]
       /\ flow_result' = result
       /\ _model' = IF ~reached THEN _model
                    ELSE IF resolved THEN r.resolved ELSE info._model
       /\ _wifi_version' = IF reached THEN info._wifi_version ELSE _wifi_version
       /\ _name' = IF reached THEN info._name ELSE _name
       /\ _status' = IF reached THEN info._status ELSE _status

\* a DHCP discovery starts the flow
DhcpStep ==
   /\ flow_result = <<>>
   /\ \E x \in {y \in FlowInputs : y[1].host_valid} :
         DiscoveryStep("dhcp", x[1], x[2], async_step_dhcp(x[1], x[2], _status, model_to_class))
   /\ UNCHANGED <<status, fan_vars, tracker_vars, model_to_class, _discovered_devices,
                  class_vars, async_vars>>

\* an SSDP discovery starts the flow
SsdpStep ==
   /\ flow_result = <<>>
   /\ \E x \in FlowInputs :
         DiscoveryStep("ssdp", x[1], x[2], async_step_ssdp(x[1], x[2], _status, model_to_class))
   /\ UNCHANGED <<status, fan_vars, tracker_vars, model_to_class, _discovered_devices,
                  class_vars, async_vars>>

NextFlow ==
   \/ UserStep \/ ManualFormStep \/ ManualStep
   \/ ScanStep \/ ScanningStep \/ ScanDoneStep \/ PickDeviceStep
   \/ DhcpStep \/ SsdpStep \/ ConfirmStep

SpecFlow == InitFlow /\ [][NextFlow]_vars

-----------------------------------------------------------------------------
(* Device family resolution (C12) *)

\* the part of w before its first "@", all of w when it has none
TokenBeforeAt(w) ==
   CHOOSE t \in {SubSeq(w, 1, n) : n \in 0..Len(w)} :
      /\ \A i \in 1..Len(t) : t[i] # "@"
      /\ Len(t) = Len(w) \/ w[Len(t) + 1] = "@"

\* the model cut to the six characters of its family code
FamilyPrefix(m) == [i \in 1..(IF Len(m) < 6 THEN Len(m) ELSE 6) |-> m[i]]

\* the manual step got a status with a device id and a WiFi version
FlowResolved ==
   /\ flow_result # <<>>
   /\ flow_env.step = "manual"
   /\ flow_env.host_valid
   /\ flow_env.fetch = "ok"
   /\ "DEVICE_ID" \in DOMAIN flow_env.status
   /\ "WIFI_VERSION" \in DOMAIN flow_env.status

\* C12: the resolved model is the first registered one of: the model, the
\* model + " " + the firmware token before "@", the model's family prefix;
\* the step creates the entry under that model, and when none of the three
\* is registered it aborts with model_unsupported and creates no entry.
C12_FirstRegisteredCandidate ==
   FlowResolved =>
      LET candidates == <<_model, _model \o <<" ">> \o TokenBeforeAt(_wifi_version),
                          FamilyPrefix(_model)>>
          registered == {i \in 1..3 : candidates[i] \in model_to_class}
      IN  IF registered = {}
          THEN flow_result.type = "abort" /\ flow_result.detail = "model_unsupported"
          ELSE \A i \in registered :
                  (\A j \in registered : i <= j) =>
                     IF flow_env.configured
                     THEN flow_result.type = "abort"
                          /\ flow_result.detail = "already_configured"
                     ELSE flow_result.type = "create_entry"
                          /\ flow_result.model = candidates[i]

\* "AC3033/10" with neither itself nor "AC3033/10 W" registered resolves
\* to the registered family "AC3033"
C12_Witness ==
   /\ FlowResolved
   /\ _model = AC3033_10
   /\ _wifi_version = <<"W", "@", "1">>
   /\ model_to_class = {AC3033, AC3033_W}
   /\ flow_result.type = "create_entry"
   /\ flow_result.model = AC3033

-----------------------------------------------------------------------------
(* Capability fields assembled along a class's lineage *)

\* the position of name in the table, 0 when the table has no such name
NameIndex(table, name) ==
   IF \E i \in 1..Len(table) : table[i].name = name
   THEN CHOOSE i \in 1..Len(table) : table[i].name = name
   ELSE 0

\* a name the map already holds keeps its pattern
RECURSIVE dict_update_keeping(_, _)
dict_update_keeping(table, other) == IF other = <<>> THEN table ELSE dict_update_keeping(IF NameIndex(table, Head(other).name) = 0 THEN Append(table, Head(other)) ELSE table, Tail(other))

\* a name the map holds is taken out and added again at the end
RECURSIVE dict_update_moving(_, _)
dict_update_moving(table, other) == IF other = <<>> THEN table ELSE dict_update_moving(Append(SelectSeq(table, LAMBDA e : e.name # Head(other).name), Head(other)), Tail(other))

\* dict.update: a name the map holds keeps its place and takes the new pattern,
\* a new name is added at the end
RECURSIVE dict_update(_, _)
dict_update(table, other) == IF other = <<>> THEN table ELSE dict_update(IF NameIndex(table, Head(other).name) = 0 THEN Append(table, Head(other)) ELSE [table EXCEPT ![NameIndex(table, Head(other).name)] = Head(other)], Tail(other))

\* the loop over reversed(__mro__), up to its i-th class: the map is updated
\* with what getattr finds for each class
RECURSIVE update_along(_, _, _)
update_along(mro, name, i) ==
   IF i = 0 THEN <<>>
   ELSE dict_update(update_along(mro, name, i - 1), getattr(mro, i, name, <<>>))

_collect_available_preset_modes(mro) ==
   update_along(mro, "AVAILABLE_PRESET_MODES", Len(mro))

_collect_available_speeds(mro) == update_along(mro, "AVAILABLE_SPEEDS", Len(mro))

\* the most classes of a lineage that may declare the field
MaxLineage == 3

\* the most entries one declaration holds
MaxDeclared == 2

ListFields == {"AVAILABLE_ATTRIBUTES", "AVAILABLE_BINARY_SENSORS", "UNAVAILABLE_FILTERS"}

MapFields == {"AVAILABLE_PRESET_MODES", "AVAILABLE_SPEEDS"}

ListEntries == {"NEW2_ERROR_CODE", "NEW2_MODE_A"}

MapEntries ==
   {[name |-> n, pattern |-> << <<"MODE", v>> >>] : n \in {"AUTO", "TURBO"}, v \in {"A", "T"}}

\* the lists a class may declare
DeclaredLists == UNION {[1..n -> ListEntries] : n \in 0..MaxDeclared}

\* the maps a class may declare: no name twice
DeclaredMaps ==
   {t \in UNION {[1..n -> MapEntries] : n \in 0..MaxDeclared} :
       \A i, j \in 1..Len(t) : t[i].name = t[j].name => i = j}

\* the classes of a lineage over one field: each declares it or not
ClassesOver(field, values) ==
   {EmptyDict} \cup {SetItem(EmptyDict, field, v) : v \in values}

LineagesOver(field, values) ==
   UNION {[1..n -> ClassesOver(field, values)] : n \in 1..MaxLineage}

\* the classes of a lineage that declare a field the entity assembles, one
\* the platform assembles, both or neither, each with at most one entry
MixedClasses ==
   LET declared == {<<>>} \cup {<<e>> : e \in ListEntries}
       fields == {"AVAILABLE_ATTRIBUTES", "AVAILABLE_BINARY_SENSORS"}
   IN  UNION {[keys -> declared] : keys \in SUBSET fields}

Lineages ==
   UNION ({LineagesOver(f, DeclaredLists) : f \in ListFields}
             \cup {LineagesOver(f, DeclaredMaps) : f \in MapFields})
      \cup UNION {[1..n -> MixedClasses] : n \in 1..MaxLineage}

\* a class is defined; nothing is assembled before an entity of it is set up
InitCollect ==
   /\ family = PhilipsGenericFan
   /\ status = [POWER |-> None]
   /\ FanIdle
   /\ NoTracker
   /\ NoFlow
   /\ NoAsync
   /\ reversed_mro \in Lineages
   /\ collected = FALSE
   /\ set_up = FALSE
   /\ _available_attributes = <<>>
   /\ available_binary_sensors = <<>>
   /\ unavailable_filters = <<>>
   /\ _available_preset_modes = <<>>
   /\ _available_speeds = <<>>
   /\ device_attributes = <<>>

\* the fan entity is constructed: __init__ assembles the entity's fields
Construct ==
   /\ ~collected
   /\ collected' = TRUE
   /\ _available_attributes' = _collect_available_attributes(reversed_mro)
   /\ _available_preset_modes' = _collect_available_preset_modes(reversed_mro)
   /\ _available_speeds' = _collect_available_speeds(reversed_mro)
   /\ UNCHANGED <<status, fan_vars, tracker_vars, flow_vars, reversed_mro, set_up,
                  available_binary_sensors, unavailable_filters, device_attributes,
                  async_vars>>

\* the binary sensor platform is set up, before or after the fan entity is
\* constructed: async_setup_entry assembles its two lists
SetupEntry ==
   /\ ~set_up
   /\ set_up' = TRUE
   /\ available_binary_sensors' = collect_available_binary_sensors(reversed_mro)
   /\ unavailable_filters' = collect_unavailable_filters(reversed_mro)
   /\ UNCHANGED <<status, fan_vars, tracker_vars, flow_vars, reversed_mro, collected,
                  _available_attributes, _available_preset_modes, _available_speeds,
                  device_attributes, async_vars>>

NextCollect == Construct \/ SetupEntry

SpecCollect == InitCollect /\ [][NextCollect]_vars

-----------------------------------------------------------------------------
(* Accumulated lists (C13) *)

\* the classes of the lineage that declare the field themselves
Declarers(field) == {i \in 1..Len(reversed_mro) : field \in DOMAIN reversed_mro[i]}

\* the own declarations of the field, from the root ancestor down to class i
RECURSIVE OwnDeclared(_, _)
OwnDeclared(field, i) ==
   IF i = 0 THEN <<>>
   ELSE OwnDeclared(field, i - 1)
           \o (IF i \in Declarers(field) THEN reversed_mro[i][field] ELSE <<>>)

\* a is b with some entries left out
RECURSIVE IsSubsequence(_, _)
IsSubsequence(a, b) ==
   IF a = <<>> THEN TRUE
   ELSE IF b = <<>> THEN FALSE
   ELSE IF Head(a) = Head(b) THEN IsSubsequence(Tail(a), Tail(b))
   ELSE IsSubsequence(a, Tail(b))

Entries(list) == {list[i] : i \in 1..Len(list)}

Accumulates(field, assembled) ==
   /\ \A i \in Declarers(field) : Entries(reversed_mro[i][field]) \subseteq Entries(assembled)
   /\ IsSubsequence(OwnDeclared(field, Len(reversed_mro)), assembled)

\* C13: once assembled, each list-shaped field (attributes, binary sensors,
\* unavailable filters) holds every entry the class or one of its ancestors
\* declares, and the declarations appear in it in lineage order, an ancestor's
\* entries before a descendant's; a descendant's shorter or empty declaration
\* removes nothing.
C13_ListsAccumulate ==
   /\ collected => Accumulates("AVAILABLE_ATTRIBUTES", _available_attributes)
   /\ set_up =>
         /\ Accumulates("AVAILABLE_BINARY_SENSORS", available_binary_sensors)
         /\ Accumulates("UNAVAILABLE_FILTERS", unavailable_filters)

\* an ancestor declares two binary sensors, its child declares an empty list and
\* the grandchild one sensor: all three entries are assembled in that order
C13_Witness ==
   /\ set_up
   /\ Len(reversed_mro) = 3
   /\ reversed_mro[1] = SetItem(EmptyDict, "AVAILABLE_BINARY_SENSORS",
                                <<"NEW2_MODE_A", "NEW2_ERROR_CODE">>)
   /\ reversed_mro[2] = SetItem(EmptyDict, "AVAILABLE_BINARY_SENSORS", <<>>)
   /\ reversed_mro[3] = SetItem(EmptyDict, "AVAILABLE_BINARY_SENSORS", <<"NEW2_ERROR_CODE">>)
   /\ available_binary_sensors = <<"NEW2_MODE_A", "NEW2_ERROR_CODE", "NEW2_ERROR_CODE">>

-----------------------------------------------------------------------------
(* Merged maps (C14) *)

\* the classes of the lineage whose own declaration of the field holds the name
NameDeclarers(field, name) ==
   {i \in Declarers(field) : NameIndex(reversed_mro[i][field], name) # 0}

\* the names declared for the field anywhere in the lineage
DeclaredNames(field) ==
   UNION {{reversed_mro[i][field][j].name : j \in 1..Len(reversed_mro[i][field])} :
             i \in Declarers(field)}

\* the descendant-most class declaring the name
MostSpecific(field, name) ==
   CHOOSE i \in NameDeclarers(field, name) : \A j \in NameDeclarers(field, name) : j <= i

Overrides(field, assembled) ==
   /\ {assembled[i].name : i \in 1..Len(assembled)} = DeclaredNames(field)
   /\ \A i, j \in 1..Len(assembled) : assembled[i].name = assembled[j].name => i = j
   /\ \A n \in DeclaredNames(field) :
         LET own == reversed_mro[MostSpecific(field, n)][field]
         IN  assembled[NameIndex(assembled, n)].pattern = own[NameIndex(own, n)].pattern

\* C14: once assembled, the preset-mode map and the speed map hold exactly the
\* names declared anywhere in the lineage, each once, and a name's pattern is
\* the one of the descendant-most class that declares the name.
C14_MapsOverride ==
   collected =>
      /\ Overrides("AVAILABLE_PRESET_MODES", _available_preset_modes)
      /\ Overrides("AVAILABLE_SPEEDS", _available_speeds)

\* an ancestor declares AUTO and TURBO, a descendant declares TURBO again with
\* another pattern: TURBO keeps its place and takes the descendant's pattern
C14_Witness ==
   /\ collected
   /\ Len(reversed_mro) = 3
   /\ reversed_mro[1] = SetItem(EmptyDict, "AVAILABLE_PRESET_MODES",
         <<[name |-> "TURBO", pattern |-> << <<"MODE", "A">> >>],
           [name |-> "AUTO", pattern |-> << <<"MODE", "A">> >>]>>)
   /\ reversed_mro[2] = EmptyDict
   /\ reversed_mro[3] = SetItem(EmptyDict, "AVAILABLE_PRESET_MODES",
         <<[name |-> "TURBO", pattern |-> << <<"MODE", "T">> >>]>>)
   /\ _available_preset_modes =
         <<[name |-> "TURBO", pattern |-> << <<"MODE", "T">> >>],
           [name |-> "AUTO", pattern |-> << <<"MODE", "A">> >>]>>

-----------------------------------------------------------------------------
(* Device information extracted from one status *)

\* "AC0850/11C"
AC0850_11C == <<"A", "C", "0", "8", "5", "0", "/", "1", "1", "C">>

\* "AC3033/10X"
AC3033_10X == <<"A", "C", "3", "0", "3", "3", "/", "1", "0", "X">>

NameKeys == <<"NAME", "NEW_NAME", "NEW2_NAME">>

ModelKeys == <<"MODEL_ID", "NEW_MODEL_ID", "NEW2_MODEL_ID">>

\* what a status may hold at a key: None, "", or a value no other key holds
ExtractStatusValues(key) ==
   {PyNone, <<>>} \cup
      (IF key = "NAME" THEN {<<"a">>}
       ELSE IF key = "NEW_NAME" THEN {<<"b">>}
       ELSE IF key = "NEW2_NAME" THEN {<<"c">>}
       ELSE IF key = "MODEL_ID" THEN {AC3033_10, AC3033_10_EXTRA}
       ELSE IF key = "NEW_MODEL_ID" THEN {AC3033, AC0850_11C}
       ELSE IF key = "NEW2_MODEL_ID" THEN {AC30, AC3033_10X}
       ELSE {})

RECURSIVE ExtractStatusesOver(_)
ExtractStatusesOver(keys) ==
   IF keys = {} THEN {EmptyDict, SetItem(EmptyDict, "DEVICE_ID", <<"i", "d">>)}
   ELSE LET k == CHOOSE x \in keys : TRUE
            rest == ExtractStatusesOver(keys \ {k})
        IN  rest \cup {SetItem(st, k, v) : st \in rest, v \in ExtractStatusValues(k)}

ExtractStatuses ==
   ExtractStatusesOver({"NAME", "NEW_NAME", "NEW2_NAME",
                        "MODEL_ID", "NEW_MODEL_ID", "NEW2_MODEL_ID"})

\* PhilipsAirPurifierConfigFlow.__init__
InitExtract ==
   /\ family = PhilipsGenericFan
   /\ status = [POWER |-> None]
   /\ FanIdle
   /\ NoTracker
   /\ NoClass
   /\ NoAsync
   /\ model_to_class = {}
   /\ flow_env = <<>>
   /\ _discovered_devices = <<>>
   /\ _status = PyNone
   /\ _model = PyNone
   /\ _wifi_version = PyNone
   /\ _name = PyNone
   /\ flow_result = <<>>

\* a discovery or manual step hands the fetched status to _extract_device_info
ExtractDeviceInfo ==
   /\ flow_env = <<>>
   /\ \E st \in ExtractStatuses :
         LET info == _extract_device_info(st, _status)
         IN  /\ flow_env' = [status |-> st]
             /\ _model' = info._model
             /\ _wifi_version' = info._wifi_version
             /\ _name' = info._name
             /\ _status' = info._status
             /\ flow_result' = IF info.raised # None
                               THEN FlowResult("raised", info.raised, PyNone, PyNone)
                               ELSE FlowResult("returned", "", PyNone, PyNone)
   /\ UNCHANGED <<status, fan_vars, tracker_vars, model_to_class, _discovered_devices,
                  class_vars, async_vars>>

NextExtract == ExtractDeviceInfo

SpecExtract == InitExtract /\ [][NextExtract]_vars

-----------------------------------------------------------------------------
(* Name and model extraction (C15) *)

\* the key is in the status with a value that is neither None nor ""
HoldsValue(st, key) == key \in DOMAIN st /\ st[key] # PyNone /\ st[key] # <<>>

\* the value of the first of the three keys that holds one, "" when none does
FirstHeld(st, keys) ==
   IF HoldsValue(st, keys[1]) THEN st[keys[1]]
   ELSE IF HoldsValue(st, keys[2]) THEN st[keys[2]]
   ELSE IF HoldsValue(st, keys[3]) THEN st[keys[3]]
   ELSE <<>>

\* C15: the extracted name is the value of the first of the legacy, new-gen and
\* new2-gen name keys that holds a non-empty value (None and "" count as
\* absent), "" when none does; the extracted model is chosen the same way
\* among the model keys and is the chosen value itself when it has at most 9
\* characters, its first 9 characters when it is longer.
C15_FirstHeldValue ==
   flow_env # <<>> =>
      LET st == flow_env.status
          chosen == FirstHeld(st, ModelKeys)
      IN  /\ _name = FirstHeld(st, NameKeys)
          /\ Len(chosen) <= 9 => _model = chosen
          /\ Len(chosen) > 9 => Len(_model) = 9 /\ \A i \in 1..9 : _model[i] = chosen[i]

\* the legacy model key holds None, the new-gen one "", the new2-gen one a
\* 10-character value; the legacy name key is absent and the new-gen one holds "b"
C15_Witness ==
   /\ flow_env # <<>>
   /\ "MODEL_ID" \in DOMAIN flow_env.status /\ flow_env.status["MODEL_ID"] = PyNone
   /\ "NEW_MODEL_ID" \in DOMAIN flow_env.status /\ flow_env.status["NEW_MODEL_ID"] = <<>>
   /\ "NEW2_MODEL_ID" \in DOMAIN flow_env.status
   /\ flow_env.status["NEW2_MODEL_ID"] = AC3033_10X
   /\ "NAME" \notin DOMAIN flow_env.status
   /\ "NEW_NAME" \in DOMAIN flow_env.status /\ flow_env.status["NEW_NAME"] = <<"b">>
   /\ _model = AC3033_10
   /\ _name = <<"b">>

-----------------------------------------------------------------------------
(* Extra state attributes of one status *)

\* philips_key.partition("#")[0]: the key up to its first "#"
RECURSIVE partition_head(_)
partition_head(philips_key) ==
   IF philips_key = <<>> \/ Head(philips_key) = "#" THEN <<>>
   ELSE <<Head(philips_key)>> \o partition_head(Tail(philips_key))

\* an attribute declared without a value map
NoValueMap == [kind |-> "None", items |-> <<>>]

\* a discrete value map: raw value to label, the label a str or a tuple whose
\* first item is the label
DictValueMap(items) == [kind |-> "dict", items |-> items]

\* a transform function of the raw value (every transform in the source ignores
\* its second argument, the status), given by its results
CallableValueMap(items) == [kind |-> "callable", items |-> items]

\* value in value_map
InValueMap(value_map, value) ==
   \E i \in 1..Len(value_map.items) : value_map.items[i].raw = value

\* the item of the map for the value
ValueMapItem(value_map, value) ==
   value_map.items[CHOOSE i \in 1..Len(value_map.items) : value_map.items[i].raw = value]

\* value_map.get(value, default), then value[0] for a tuple
ValueMapGet(value_map, value, default) ==
   IF InValueMap(value_map, value) THEN ValueMapItem(value_map, value).label[1]
   ELSE default

\* the inner function append of extra_state_attributes
append(attributes, entry, st) ==
   LET philips_clean_key == partition_head(entry.philips_key)
   IN  IF philips_clean_key \notin DOMAIN st THEN attributes
       ELSE LET value == st[philips_clean_key]
            IN  SetItem(attributes, entry.key,
                   IF entry.value_map.kind = "dict" /\ InValueMap(entry.value_map, value)
                   THEN ValueMapGet(entry.value_map, value, "unknown")
                   ELSE IF entry.value_map.kind = "callable"
                   THEN ValueMapItem(entry.value_map, value).label[1]
                   ELSE value)

RECURSIVE extra_state_attributes(_, _)
extra_state_attributes(available_attributes, st) ==
   IF available_attributes = <<>> THEN EmptyDict
   ELSE append(extra_state_attributes(SubSeq(available_attributes, 1,
                                             Len(available_attributes) - 1), st),
               available_attributes[Len(available_attributes)], st)

\* the most attributes a class's assembled list holds
MaxAttributes == 2

RawValues == {"0", "1", "7"}

\* "0" maps to a str label, "1" to a (label, icon) tuple, "7" to nothing
SampleValueMap ==
   DictValueMap(<<[raw |-> "0", label |-> <<"IAI">>],
                  [raw |-> "1", label |-> <<"PM2.5", "mdi:blur">>]>>)

\* a transform of every raw value
RuntimeTransform ==
   CallableValueMap(<<[raw |-> "0", label |-> <<"0:00:00">>],
                      [raw |-> "1", label |-> <<"0:00:01">>],
                      [raw |-> "7", label |-> <<"0:00:07">>]>>)

\* the raw keys "a", "a#1" and "b"
PhilipsKeys == {<<"a">>, <<"a", "#", "1">>, <<"b">>}

AttributeEntries ==
   [key : {"preferred_index", "runtime"}, philips_key : PhilipsKeys,
    value_map : {NoValueMap, SampleValueMap, RuntimeTransform}]

AttributeLists == UNION {[1..n -> AttributeEntries] : n \in 0..MaxAttributes}

RECURSIVE AttributeStatusesOver(_)
AttributeStatusesOver(keys) ==
   IF keys = {} THEN {EmptyDict}
   ELSE LET k == CHOOSE x \in keys : TRUE
            rest == AttributeStatusesOver(keys \ {k})
        IN  rest \cup {SetItem(st, k, v) : st \in rest,
                          v \in IF k = <<"a", "#", "1">> THEN {"0"} ELSE RawValues}

AttributeStatuses == AttributeStatusesOver(PhilipsKeys)

\* an entity with its assembled attributes and the coordinator's status
InitAttributes ==
   /\ family = PhilipsGenericFan
   /\ status \in AttributeStatuses
   /\ FanIdle
   /\ NoTracker
   /\ NoFlow
   /\ NoAsync
   /\ reversed_mro = <<>>
   /\ collected = TRUE
   /\ set_up = FALSE
   /\ _available_attributes \in AttributeLists
   /\ available_binary_sensors = <<>>
   /\ unavailable_filters = <<>>
   /\ _available_preset_modes = <<>>
   /\ _available_speeds = <<>>
   /\ device_attributes = <<>>

\* the entity's state is written: extra_state_attributes is read
ReadAttributes ==
   /\ cmd = NoCommand
   /\ cmd' = Command("extra_state_attributes", NoPercentage, None, FALSE)
   /\ device_attributes' = extra_state_attributes(_available_attributes, status)
   /\ UNCHANGED <<status, family, pre, calls, raised, notified, steps, delivered,
                  tracker_vars, flow_vars,
                  reversed_mro, collected, set_up, _available_attributes,
                  available_binary_sensors, unavailable_filters, _available_preset_modes,
                  _available_speeds, async_vars>>

NextAttributes == ReadAttributes

SpecAttributes == InitAttributes /\ [][NextAttributes]_vars

-----------------------------------------------------------------------------
(* Attribute extraction (C16) *)

\* the raw key an attribute is declared with, without its "#" suffix
KeyBeforeHash(k) ==
   CHOOSE t \in {SubSeq(k, 1, n) : n \in 0..Len(k)} :
      /\ \A i \in 1..Len(t) : t[i] # "#"
      /\ Len(t) = Len(k) \/ k[Len(t) + 1] = "#"

\* the attributes were read
AttributesRead == cmd.op = "extra_state_attributes"

\* the last declaration of each attribute name
LastDeclared ==
   {i \in 1..Len(_available_attributes) :
       \A j \in 1..Len(_available_attributes) :
          _available_attributes[j].key = _available_attributes[i].key => j <= i}

\* C16: for a declared attribute whose raw key, without its "#" suffix, is in
\* the status and which declares a discrete value map, the attribute's value is
\* the mapped label when the raw value is in the map and "unknown" when it is
\* not: the raw value is never exposed.
C16_UnmappedIsUnknown ==
   AttributesRead =>
      \A i \in LastDeclared :
         LET entry == _available_attributes[i]
             raw_key == KeyBeforeHash(entry.philips_key)
         IN  (raw_key \in DOMAIN status /\ entry.value_map.kind = "dict") =>
                /\ entry.key \in DOMAIN device_attributes
                /\ device_attributes[entry.key] =
                      IF \E m \in 1..Len(entry.value_map.items) :
                            entry.value_map.items[m].raw = status[raw_key]
                      THEN LET m == CHOOSE m \in 1..Len(entry.value_map.items) :
                                       entry.value_map.items[m].raw = status[raw_key]
                           IN  entry.value_map.items[m].label[1]
                      ELSE "unknown"

-----------------------------------------------------------------------------
(* Oscillation projection (C17) *)

DeclaresOscillation == family.KEY_OSCILLATION # <<>>

\* the raw value the status holds at the declared oscillation key, None when
\* it holds none
RawOscillation == Get(status, family.KEY_OSCILLATION[1].key)

\* C17 as claimed: the projection is absent exactly when the family declares
\* no oscillation key, and with a key declared it is a boolean for every
\* status, on exactly when the raw value differs from the declared off-value.
C17_BooleanWheneverDeclared ==
   /\ oscillating(family, status) = None <=> ~DeclaresOscillation
   /\ DeclaresOscillation =>
         oscillating(family, status) =
            (IF RawOscillation # family.KEY_OSCILLATION[1].values.off THEN "True" ELSE "False")

\* C17: the projection is absent when the family declares no oscillation key
\* and when the status holds no value at the declared key; when it holds one,
\* the projection is a boolean, on exactly when that value differs from the
\* declared off-value.
C17_AbsentWithoutKeyOrValue ==
   /\ ~DeclaresOscillation => oscillating(family, status) = None
   /\ (DeclaresOscillation /\ RawOscillation = None) => oscillating(family, status) = None
   /\ (DeclaresOscillation /\ RawOscillation # None) =>
         /\ oscillating(family, status) \in {"True", "False"}
         /\ oscillating(family, status) = "True"
               <=> RawOscillation # family.KEY_OSCILLATION[1].values.off

\* a family with an oscillation key is on, and its status holds no value at
\* that key: the projection is absent
C17_Witness ==
   /\ DeclaresOscillation
   /\ is_on(family, status)
   /\ RawOscillation = None
   /\ oscillating(family, status) = None

-----------------------------------------------------------------------------
(* Current percentage while off (C18) *)

\* the power field holds the off value
PowerIsOff == Get(status, family.KEY_PHILIPS_POWER) = family.STATE_POWER_OFF

\* the speed declarations whose every (key, value) item equals the status at
\* the key, the key replaced when it is REPLACE_SPEED's source
FullSpeedMatches(f, st) ==
   {i \in 1..Len(f.AVAILABLE_SPEEDS) :
      \A j \in 1..Len(f.AVAILABLE_SPEEDS[i].pattern) :
         LET k  == f.AVAILABLE_SPEEDS[i].pattern[j][1]
             v  == f.AVAILABLE_SPEEDS[i].pattern[j][2]
             rk == IF f.REPLACE_SPEED # <<>> /\ f.REPLACE_SPEED[1] = k
                   THEN f.REPLACE_SPEED[2] ELSE k
         IN  rk \in DOMAIN st /\ st[rk] = v}

\* C18: in every family the current percentage is never a non-zero speed while
\* the power field holds the off value, and it is unknown only when the device
\* reports on and no declared speed pattern fully matches.
C18_OffWinsOverSpeed ==
   /\ PowerIsOff => percentage(family, status) \in {0, NoPercentage}
   /\ percentage(family, status) = NoPercentage =>
         is_on(family, status) /\ FullSpeedMatches(family, status) = {}

-----------------------------------------------------------------------------
(* Sequenced writes of PhilipsAC1214 (C19) *)

\* the last command was set-preset or set-percentage for a declared target
SequencedCommand ==
   /\ family.cls = "PhilipsAC1214"
   /\ \/ /\ cmd.op = "set_preset_mode"
         /\ TableGet(family.AVAILABLE_PRESET_MODES, cmd.preset_mode) # <<>>
      \/ /\ cmd.op = "set_percentage"
         /\ cmd.percentage # 0

\* the pattern of the command's target
TargetPattern ==
   IF cmd.op = "set_preset_mode"
   THEN TableGet(family.AVAILABLE_PRESET_MODES, cmd.preset_mode)
   ELSE TableGet(family.AVAILABLE_SPEEDS,
                 percentage_to_ordered_list_item(Names(family.AVAILABLE_SPEEDS),
                                                 cmd.percentage))

\* the write of the intermediate mode
IntermediateWrite == set_control_values(TableGet(family.AVAILABLE_PRESET_MODES, "ALLERGEN"))

\* C19: in PhilipsAC1214, within one set-preset or set-percentage command for
\* a declared target: when the device is off the first call is the power-on
\* write and the second a settle delay, and when it is on no power write is
\* issued; every write before the last is the power-on write or the
\* intermediate-mode write and is followed at once by a settle delay; the last
\* call is the write of the target pattern, which is written exactly once.
C19_SequencedWrites ==
   (SequencedCommand /\ Returned) =>
      /\ calls # <<>>
      /\ calls[Len(calls)] = set_control_values(TargetPattern)
      /\ Cardinality({i \in 1..Len(calls) : calls[i] = set_control_values(TargetPattern)}) = 1
      /\ (Undisturbed /\ ~is_on(family, pre)) =>
            /\ Len(calls) >= 3
            /\ calls[1] = PowerOnWrite
            /\ calls[2] = sleep
      /\ (Undisturbed /\ is_on(family, pre)) =>
            \A i \in 1..Len(calls) : calls[i] # PowerOnWrite
      /\ \A i \in Writes(calls) \ {Len(calls)} :
            /\ calls[i] = PowerOnWrite \/ calls[i] = IntermediateWrite
            /\ calls[i] = PowerOnWrite => i = 1
            /\ calls[i + 1] = sleep
      /\ Cardinality(Writes(calls)) <= 3

\* the device is off in preset AUTO and SPEED_1 is set: power on, delay, the
\* intermediate mode, delay, then SPEED_1
C19_Witness ==
   /\ SequencedCommand
   /\ Undisturbed
   /\ cmd.op = "set_preset_mode"
   /\ cmd.preset_mode = "SPEED_1"
   /\ ~is_on(family, pre)
   /\ preset_mode(family, pre) = "AUTO"
   /\ calls = <<PowerOnWrite, sleep, IntermediateWrite, sleep,
                set_control_values(TargetPattern)>>

-----------------------------------------------------------------------------
(* Set-percentage without declared speeds (C20) *)

\* C20: set-percentage raises nothing, whatever the value and the family; a
\* non-zero request in a family with no declared speed writes nothing to the
\* transport and leaves the Status Store as it was.
C20_SetPercentageNeverRaises ==
   (cmd.op = "set_percentage" /\ Undisturbed) =>
      /\ raised = None
      /\ (cmd.percentage # 0 /\ family.AVAILABLE_SPEEDS = <<>>) =>
            TransportWrites(calls) = <<>> /\ status = pre

-----------------------------------------------------------------------------
(* Filters with a total of zero or less (C30) *)

\* the tracked filters whose total the status reports as zero or negative
NonPositiveTotal == {k \in TrackedNow : TotalPresent(k) /\ status[FILTER_TYPES[k].total] <= 0}

\* C30: a tracked filter whose reported total is zero or negative is not in
\* the low set, whatever its remaining value (a value below 72 included: the
\* raw-hours rule is not used for it), the update that saw it stores no low
\* entry and fires no alert for it, and the low set is computed for every
\* reported remaining value and total.
C30_NonPositiveTotalNeverLow ==
   \A k \in NonPositiveTotal :
      /\ k \notin LowNow
      /\ updates >= 1 => (k \notin _previous_low_filters /\ Count(fired, k) = 0)

\* after an update: 10 remaining of a total of -100, and of a total of 0 in the
\* update before; 10 is below 72 and the filter was never low
C30_Witness ==
   /\ updates >= 2
   /\ "FILTER_NANOPROTECT" \in NonPositiveTotal
   /\ status["FILTER_NANOPROTECT"] = 10
   /\ status["FILTER_NANOPROTECT_TOTAL"] = -100
   /\ run_len["FILTER_NANOPROTECT"] = 0
   /\ LowNow = {}

-----------------------------------------------------------------------------
(* Resolution without a firmware string (C29) *)

\* the manual step got a status with a device id, with or without a WiFi version
ReachedResolution ==
   /\ flow_result # <<>>
   /\ flow_env.step = "manual"
   /\ flow_env.host_valid
   /\ flow_env.fetch = "ok"
   /\ "DEVICE_ID" \in DOMAIN flow_env.status

\* C29: resolution ends with a registered candidate or with the
\* unsupported-model outcome and raises nothing, whatever the WiFi version, a
\* status without one included; a model that is registered itself or by its
\* family prefix is never unsupported.
C29_ResolutionNeverFails ==
   ReachedResolution =>
      /\ flow_result.type # "raised"
      /\ (_model \in model_to_class \/ FamilyPrefix(_model) \in model_to_class) =>
            flow_result.type \in {"create_entry", "abort"}
            /\ flow_result.detail # "model_unsupported"

-----------------------------------------------------------------------------
(* Outcomes of the setup entry paths (C25) *)

\* the step tried to fetch the initial status
FetchTried ==
   /\ flow_result # <<>>
   /\ flow_env.step = "dhcp" \/ flow_env.host_valid

\* the step ended with the unsupported-model outcome
Unsupported == flow_result.type = "abort" /\ flow_result.detail = "model_unsupported"

\* none of the model, the model with the firmware token and the family prefix
\* is registered
NoCandidateRegistered ==
   LET model == extract_model(flow_env.status)
       wifi_version == StatusGet(flow_env.status, "WIFI_VERSION")
   IN  /\ model \notin model_to_class
       /\ FamilyPrefix(model) \notin model_to_class
       /\ wifi_version # PyNone =>
             (model \o <<" ">> \o TokenBeforeAt(wifi_version)) \notin model_to_class

\* C25: in the DHCP, the SSDP and the manual path, a timeout of the initial
\* fetch ends the step with a timeout or connection-failure outcome, any other
\* transport error with a connection-failure outcome, and the step ends with the
\* unsupported-model outcome only after a fetch that returned a status none of
\* whose model candidates is registered.
C25_TimeoutIsNotUnsupported ==
   FetchTried =>
      /\ flow_env.fetch = "TimeoutError" => flow_result.detail \in {"timeout", "connect"}
      /\ flow_env.fetch = "Exception" => flow_result.detail \in {"timeout", "connect"}
      /\ Unsupported => flow_env.fetch = "ok" /\ NoCandidateRegistered

-----------------------------------------------------------------------------
(* The intermediate write of PhilipsAC1214 (C23) *)

\* the mode of the preset the store showed when the command was issued, None
\* when it showed no preset
CurrentMode ==
   LET current_pattern == TableGet(family.AVAILABLE_PRESET_MODES, preset_mode(family, pre))
   IN  IF current_pattern = <<>> THEN None ELSE PatternGet(current_pattern, "MODE")

\* the command issued the intermediate write
IntermediateIssued == \E i \in 1..Len(calls) - 1 : calls[i] = IntermediateWrite

\* C23: in PhilipsAC1214 a set-preset or set-percentage command issues no
\* intermediate write (and so no intermediate settle delay) when the store
\* shows the device in allergen mode, when the target is the allergen mode,
\* or when the current mode is manual.
C23_NoIntermediateFromAllergen ==
   (/\ SequencedCommand
    /\ Undisturbed
    /\ \/ CurrentMode = "A"
       \/ PatternGet(TargetPattern, "MODE") = "A"
       \/ CurrentMode = "M")
      => ~IntermediateIssued

-----------------------------------------------------------------------------
(* Turn on with a requested percentage of 0 (C24) *)

\* turn on was invoked with percentage 0 and no preset
TurnOnWithZero ==
   /\ cmd.op = "turn_on"
   /\ cmd.percentage = 0
   /\ ~PresetGiven(cmd.preset_mode)

\* C24: turn on with a requested percentage of 0 is delegated to
\* set-percentage: its last write is the power-off write and the device is
\* then reported off; it is not handled as a turn on without arguments.
C24_TurnOnZeroTurnsOff ==
   (TurnOnWithZero /\ Undisturbed) =>
      /\ calls # <<>>
      /\ calls[Len(calls)] = PowerOffWrite
      /\ ~is_on(family, status)

-----------------------------------------------------------------------------
(* Positions in the merged maps (C28) *)

\* the ancestor-most class declaring the name
FirstDeclarer(field, name) ==
   CHOOSE i \in NameDeclarers(field, name) : \A j \in NameDeclarers(field, name) : i <= j

\* name n was declared before name m: by an earlier class of the lineage, or
\* earlier in the declaration of the class that first declares both
DeclaredBefore(field, n, m) ==
   LET i == FirstDeclarer(field, n)
       j == FirstDeclarer(field, m)
   IN  \/ i < j
       \/ /\ i = j
          /\ NameIndex(reversed_mro[i][field], n) < NameIndex(reversed_mro[i][field], m)

\* how many names were declared before name n, plus one
DeclaredRank(field, n) ==
   1 + Cardinality({m \in DeclaredNames(field) : DeclaredBefore(field, m, n)})

KeepsPositions(field, assembled) ==
   \A n \in DeclaredNames(field) : NameIndex(assembled, n) = DeclaredRank(field, n)

\* some class other than the first declarer declares the name again
Redeclared(field) ==
   {n \in DeclaredNames(field) :
       \E i \in NameDeclarers(field, n) : i # FirstDeclarer(field, n)}

\* C28: in the assembled preset-mode map and speed map a name stands at the
\* position of its first declaration in the lineage: a name declared again by
\* a descendant keeps the ancestor's position, names first declared by a
\* descendant follow all ancestor names; the ordinal of a speed, and so its
\* percentage, is the one of that position.
C28_RedeclaredKeepsPosition ==
   collected =>
      /\ KeepsPositions("AVAILABLE_PRESET_MODES", _available_preset_modes)
      /\ KeepsPositions("AVAILABLE_SPEEDS", _available_speeds)
      /\ \A n \in DeclaredNames("AVAILABLE_SPEEDS") :
            ordered_list_item_to_percentage(Names(_available_speeds), n)
               = (DeclaredRank("AVAILABLE_SPEEDS", n) * 100) \div Len(_available_speeds)

\* an ancestor declares the speeds AUTO then TURBO, a descendant declares
\* TURBO then AUTO with other patterns: AUTO stays first
C28_Witness ==
   /\ collected
   /\ Len(reversed_mro) = 2
   /\ reversed_mro[1] = SetItem(EmptyDict, "AVAILABLE_SPEEDS",
         <<[name |-> "AUTO", pattern |-> << <<"MODE", "A">> >>],
           [name |-> "TURBO", pattern |-> << <<"MODE", "A">> >>]>>)
   /\ reversed_mro[2] = SetItem(EmptyDict, "AVAILABLE_SPEEDS",
         <<[name |-> "TURBO", pattern |-> << <<"MODE", "T">> >>],
           [name |-> "AUTO", pattern |-> << <<"MODE", "T">> >>]>>)
   /\ Redeclared("AVAILABLE_SPEEDS") = {"AUTO", "TURBO"}
   /\ Names(_available_speeds) = <<"AUTO", "TURBO">>
   /\ _available_speeds[1].pattern = << <<"MODE", "T">> >>

-----------------------------------------------------------------------------
(* Overlapping command handlers *)

\* the handler's last call, if it was just made and is a write, goes to the
\* transport
Sent(w, i, before, after) ==
   IF Len(after.calls) > Len(before.calls) /\ after.calls[Len(after.calls)].op # "sleep"
   THEN Append(w, [task |-> i, data |-> after.calls[Len(after.calls)].data])
   ELSE w

\* the most handlers started in one behaviour
MaxTasks == 2

\* the families whose handlers differ: the base handlers without and with an
\* oscillation key, and the overrides of PhilipsAC1214
TaskFamilies == {PhilipsAC1214, PhilipsAC3836, PhilipsCX5120}

\* the commands started
TaskCommands(f) ==
   {Command("turn_on", n, None, FALSE) : n \in {NoPercentage, 0, 100}}
      \cup {Command("turn_off", NoPercentage, None, FALSE)}
      \cup {Command("set_preset_mode", NoPercentage, p, FALSE) : p \in PresetArgs(f)}
      \cup {Command("set_percentage", n, None, FALSE) : n \in {0, 1, 100}}
      \cup {Command("oscillate", NoPercentage, None, osc) : osc \in BOOLEAN}

InitTasks ==
   /\ family \in TaskFamilies
   /\ status \in Statuses(family)
   /\ FanIdle
   /\ NoTracker
   /\ NoFlow
   /\ NoClass
   /\ NoAsync

\* a command is issued: its handler runs to its first await
Issue ==
   /\ Len(tasks) < MaxTasks
   /\ \E c \in TaskCommands(family) :
         LET r == run(family, status, Task(family, status, c))
         IN  /\ status' = r.status
             /\ tasks' = Append(tasks, r.task)
             /\ wire' = Sent(wire, Len(tasks) + 1, Task(family, status, c), r.task)
   /\ UNCHANGED <<fan_vars, tracker_vars, flow_vars, class_vars, scan>>

\* the call a handler awaits returns: the handler runs on to its next await
Resume ==
   /\ \E i \in 1..Len(tasks) :
         /\ Suspended(tasks[i])
         /\ LET t == [tasks[i] EXCEPT !.steps = Tail(@)]
                r == run(family, status, t)
            IN  /\ status' = r.status
                /\ tasks' = [tasks EXCEPT ![i] = r.task]
                /\ wire' = Sent(wire, i, t, r.task)
   /\ UNCHANGED <<fan_vars, tracker_vars, flow_vars, class_vars, scan>>

\* the transport write a handler awaits fails: the exception ends the handler
TransportFails ==
   /\ \E i \in 1..Len(tasks) :
         /\ Suspended(tasks[i])
         /\ Awaited(tasks[i]).op # "sleep"
         /\ tasks' = [tasks EXCEPT ![i] = [@ EXCEPT !.steps = <<>>, !.raised = "Exception"]]
   /\ UNCHANGED <<status, wire, fan_vars, tracker_vars, flow_vars, class_vars, scan>>

NextTasks == Issue \/ Resume \/ TransportFails

SpecTasks == InitTasks /\ [][NextTasks]_vars

\* a handler that ran alone and to its end leaves what the handler run in one
\* piece leaves
RunsAsInOnePiece ==
   (Len(tasks) = 1 /\ ~Suspended(tasks[1]) /\ tasks[1].raised # "Exception") =>
      LET t == tasks[1]
          c == t.cmd
          r == IF c.op = "turn_on" THEN async_turn_on(family, t.pre, c.percentage, c.preset_mode)
               ELSE IF c.op = "turn_off" THEN async_turn_off(family, t.pre)
               ELSE IF c.op = "set_preset_mode" THEN async_set_preset_mode(family, t.pre, c.preset_mode)
               ELSE IF c.op = "set_percentage" THEN async_set_percentage(family, t.pre, c.percentage)
               ELSE async_oscillate(family, t.pre, c.oscillating)
      IN  /\ status = r.status
          /\ t.calls = r.calls
          /\ t.raised = r.raised
          /\ t.notified = r.notified

-----------------------------------------------------------------------------
(* The store while a write is in flight (C21) *)

\* the handler awaits a write whose values it stores next
AwaitsCommandedWrite(t) ==
   /\ Len(t.steps) >= 2
   /\ t.steps[1].ins = "await"
   /\ t.steps[1].arg.op # "sleep"
   /\ t.steps[2].ins = "update"

\* the store holds every value of the pattern
Holds(st, pattern) == \A j \in 1..Len(pattern) : Get(st, pattern[j][1]) = pattern[j][2]

\* C21: while a command's transport write awaits its acknowledgment the
\* Status Store already holds the commanded values, so that a projection read
\* in that window returns the intended state.
C21_StoreAheadOfTransport ==
   \A i \in 1..Len(tasks) :
      AwaitsCommandedWrite(tasks[i]) => Holds(status, tasks[i].steps[2].arg)

-----------------------------------------------------------------------------
(* A failed transport call (C26) *)

\* the transport call the handler awaited failed
Failed(t) == t.raised = "Exception"

\* C26: a command whose transport call fails has changed nothing in the
\* Status Store and has notified nobody; when no other command has changed
\* the store either, the store is the one the first command started with.
C26_FailedWriteLeavesStore ==
   /\ \A i \in 1..Len(tasks) :
         Failed(tasks[i]) => tasks[i].mutated = 0 /\ tasks[i].notified = 0
   /\ (tasks # <<>> /\ \A i \in 1..Len(tasks) : Failed(tasks[i])) => status = tasks[1].pre

\* a set-preset of a base family fails at its only write, and a second
\* command fails too: the store still shows the device off in no preset
C26_Witness ==
   /\ family.cls = "PhilipsAC3836"
   /\ Len(tasks) = 2
   /\ tasks[1].cmd.op = "set_preset_mode"
   /\ Len(tasks[1].calls) = 1
   /\ Failed(tasks[1])
   /\ tasks[2].cmd.op = "turn_on"
   /\ Failed(tasks[2])
   /\ ~is_on(family, status)
   /\ preset_mode(family, status) = None

-----------------------------------------------------------------------------
(* Overlapping commands (C27) *)

\* set-preset or set-percentage for a declared target
HasTarget(t) ==
   \/ /\ t.cmd.op = "set_preset_mode"
      /\ TableGet(family.AVAILABLE_PRESET_MODES, t.cmd.preset_mode) # <<>>
   \/ /\ t.cmd.op = "set_percentage"
      /\ t.cmd.percentage # 0
      /\ family.AVAILABLE_SPEEDS # <<>>

\* the pattern of the command's target
TaskTarget(t) ==
   IF t.cmd.op = "set_preset_mode"
   THEN TableGet(family.AVAILABLE_PRESET_MODES, t.cmd.preset_mode)
   ELSE TableGet(family.AVAILABLE_SPEEDS,
                 percentage_to_ordered_list_item(Names(family.AVAILABLE_SPEEDS),
                                                 t.cmd.percentage))

\* both commands have run to their end without a transport failure
BothCompleted ==
   /\ Len(tasks) = 2
   /\ \A i \in 1..2 :
         /\ HasTarget(tasks[i])
         /\ ~Suspended(tasks[i])
         /\ tasks[i].raised = None

\* C27: of two set-preset or set-percentage commands issued one after the
\* other, the second possibly while the first is suspended, both completing,
\* the last write the device receives is the target write of the command
\* issued later, in every family.
C27_LaterCommandWritesLast ==
   BothCompleted =>
      wire[Len(wire)] = [task |-> 2, data |-> set_control_values(TaskTarget(tasks[2])).data]

-----------------------------------------------------------------------------
(* scan_for_devices.  The probes of a phase differ only in where they are, *)
(* so the scan keeps how many probes are at each place of                  *)
(* _check_single_ip.  A step of the model is one step of one task: of the  *)
(* scan up to its next await, or of one probe up to its next await.        *)

\* asyncio.Semaphore(50)
SEMAPHORE_VALUE == 50

\* range(1, 101): the addresses of the fallback scan
COMMON_IPS == 100

\* the most entries of the ARP table within the fallback range, and the most
\* of other networks
MaxArp == 1

\* the most entries of the ARP table in the rest of the /24: one more than
\* the limiter admits
MaxArpOther == 51

\* the most hosts CoAPClient.create connects to
MaxClients == 2

\* the most hosts that answer get_status with a status the probe can read
MaxDevices == 2

\* the most cancellations of probes, those not counted that a cancelled scan
\* passes on to probes that have not started
MaxCancelled == 2

\* the most probes that were handed a permit by a release and have not
\* resumed since
MaxWoken == 2

\* /proc/net/arp when it is read: how many valid entries are addresses of the
\* local /24 within .1 to .100 (common), of the local /24 outside of it
\* (other), and of other networks (foreign)
ArpTables ==
   [common : 0..MaxArp, other : {0, 1, MaxArpOther}, foreign : 0..MaxArp]

\* [ip for ip in arp_ips if ip.startswith(network_prefix + ".")]
in_network(table) == [common |-> table.common, other |-> table.other]

\* len(arp_ips)
ArpCount(arp_ips) == arp_ips.common + arp_ips.other

\* len([ip for ip in common_ips if ip not in arp_ips])
FallbackCount(arp_ips) == COMMON_IPS - arp_ips.common

\* where a probe is: its task created and not started, waiting for the
\* limiter, woken by a release and not resumed, at one of its awaits inside
\* the limiter, returned, or ended by an exception it did not catch
Created == "created, not started"

Waiting == "async with semaphore"

Woken == "async with semaphore, woken"

AtCreate == "await CoAPClient.create"

AtGetStatus == "await client.get_status"

AtShutdownFound == "await client.shutdown, then return dict"

AtShutdownNone == "await client.shutdown, then return None"

ReturnedDict == "return dict"

ReturnedNone == "return None"

Propagated == "raise"

Outside == {Created, Waiting, Woken}

Inside == {AtCreate, AtGetStatus, AtShutdownFound, AtShutdownNone}

Places == Outside \cup Inside \cup {ReturnedDict, ReturnedNone, Propagated}

\* how an await of the probe may end; get_status may return a status that
\* extract_model or extract_name raises on ("unreadable": a model id that is
\* no string) or a falsy one ("empty")
AwaitOutcomes(at) ==
   IF at = AtCreate THEN {"client", "TimeoutError", "Exception", "CancelledError"}
   ELSE IF at = AtGetStatus
   THEN {"status", "unreadable", "empty", "TimeoutError", "Exception", "CancelledError"}
   ELSE {"ok", "TimeoutError", "Exception", "CancelledError"}

\* with the client shut down only when get_status returned
_check_single_ip_unclosed(at, outcome) == IF at = AtCreate THEN (IF outcome = "client" THEN AtGetStatus ELSE ReturnedNone) ELSE IF at = AtGetStatus THEN (IF outcome = "status" THEN AtShutdownFound ELSE IF outcome \in {"unreadable", "empty"} THEN AtShutdownNone ELSE ReturnedNone) ELSE IF outcome = "CancelledError" THEN Propagated ELSE IF at = AtShutdownFound THEN ReturnedDict ELSE ReturnedNone

\* where the probe goes when the await it is at ends with the outcome
_check_single_ip(at, outcome) ==
   IF at = AtCreate
   THEN IF outcome = "client" THEN AtGetStatus
        ELSE ReturnedNone                  \* caught; client is None: nothing to shut down
   ELSE IF at = AtGetStatus
   THEN IF outcome = "status" THEN AtShutdownFound
        ELSE AtShutdownNone                \* falsy status, or caught: finally
   ELSE IF outcome = "CancelledError" THEN Propagated   \* except Exception lets it pass
   ELSE IF at = AtShutdownFound THEN ReturnedDict       \* except Exception: pass
   ELSE ReturnedNone

\* the probe holds a client it has not called shutdown on
HoldsOpenClient(at) == at = AtGetStatus

\* the probes inside the limiter
InsideCount(probes) == probes[AtCreate] + probes[AtGetStatus]
                          + probes[AtShutdownFound] + probes[AtShutdownNone]

\* the probes that have not ended
LiveCount(probes) == probes[Created] + probes[Waiting] + probes[Woken]
                        + InsideCount(probes)

\* the waiters of the limiter whose future is not done: the waiting probes
\* but those whose task was cancelled and has not resumed
pending_waiters(s) == s.probes[Waiting] - s.must_cancel[Waiting]

\* Semaphore.acquire of a probe that starts: it enters unless the limiter is
\* locked (its value 0, or a waiter that is not cancelled), and waits
\* otherwise
acquire(s) ==
   IF s.semaphore = 0 \/ pending_waiters(s) + s.probes[Woken] > 0
   THEN [s EXCEPT !.probes[Created] = @ - 1, !.probes[Waiting] = @ + 1]
   ELSE [s EXCEPT !.probes[Created] = @ - 1, !.probes[AtCreate] = @ + 1,
                  !.semaphore = @ - 1]

\* Semaphore._wake_up_next: the first waiter that is not done is handed a
\* permit
_wake_up_next(s) ==
   IF pending_waiters(s) > 0
   THEN [s EXCEPT !.probes[Waiting] = @ - 1, !.probes[Woken] = @ + 1,
                  !.semaphore = @ - 1]
   ELSE s

\* Semaphore.release
release(s) == _wake_up_next([s EXCEPT !.semaphore = @ + 1])

\* a probe goes from one place to another
move(s, from, to) == [s EXCEPT !.probes[from] = @ - 1, !.probes[to] = @ + 1]

\* the probe that steps is one whose task holds a cancellation that has not
\* been delivered (marked), or one that holds none
Steps(s, at, marked) ==
   IF marked THEN s.must_cancel[at] > 0 ELSE s.probes[at] > s.must_cancel[at]

\* the cancellation of a marked probe is delivered with its step
deliver_cancel(s, at, marked) ==
   IF marked THEN [s EXCEPT !.must_cancel[at] = @ - 1] ELSE s

\* asyncio.gather over n probes: their tasks are created
gather(n) == [at \in Places |-> IF at = Created THEN n ELSE 0]

NoProbes == gather(0)

\* scan_for_devices has been called
InitScan ==
   /\ scan = [phase |-> "start", local_ip |-> FALSE,
              arp_ips |-> in_network([common |-> 0, other |-> 0]),
              semaphore |-> 0, probes |-> NoProbes, must_cancel |-> NoProbes,
              cancel_requested |-> FALSE, clients |-> 0,
              answered |-> 0, lost |-> 0, cancelled |-> 0, failed |-> FALSE,
              unclosed |-> 0, found_devices |-> 0]
   /\ family = PhilipsGenericFan
   /\ status = [POWER |-> None]
   /\ FanIdle
   /\ NoTracker
   /\ NoFlow
   /\ NoClass
   /\ NoTasks

\* scan_for_devices up to its first await: without a local address it returns
\* no device, with one it awaits the ping sweep
StartScan ==
   /\ scan.phase = "start"
   /\ \E local_ip \in BOOLEAN :
         scan' = [scan EXCEPT !.local_ip = local_ip,
                              !.phase = IF local_ip THEN "ping_sweep" ELSE "complete"]
   /\ UNCHANGED <<status, fan_vars, tracker_vars, flow_vars, class_vars, tasks, wire>>

\* the task that awaits scan_for_devices is cancelled: the cancellation
\* reaches the await the scan is at, and gather passes it on to the task of
\* every probe that has not ended
CancelScan ==
   /\ scan.phase \in {"ping_sweep", "arp", "fallback"}
   /\ ~scan.cancel_requested
   /\ scan.cancelled + LiveCount(scan.probes) - scan.probes[Created] <= MaxCancelled
   /\ scan' = [scan EXCEPT
                  !.cancel_requested = TRUE,
                  !.cancelled = @ + LiveCount(scan.probes),
                  !.must_cancel = [at \in Places |->
                                      IF at \in Outside \cup Inside
                                      THEN scan.probes[at] ELSE 0]]
   /\ UNCHANGED <<status, fan_vars, tracker_vars, flow_vars, class_vars, tasks, wire>>

\* the scan resumes from the ping sweep and runs to its next await: a
\* cancellation leaves scan_for_devices; otherwise the ARP table is read, the
\* limiter is created and the probes of the ARP addresses are gathered, or
\* with no ARP address those of the fallback range
PingSweepReturns ==
   /\ scan.phase = "ping_sweep"
   /\ \/ /\ scan.cancel_requested
         /\ scan' = [scan EXCEPT !.phase = "raise CancelledError"]
      \/ /\ ~scan.cancel_requested
         /\ \E table \in ArpTables :
               LET arp_ips == in_network(table)
               IN  scan' = [scan EXCEPT
                              !.arp_ips = arp_ips,
                              !.semaphore = SEMAPHORE_VALUE,
                              !.phase = IF ArpCount(arp_ips) > 0 THEN "arp"
                                        ELSE "fallback",
                              !.probes = IF ArpCount(arp_ips) > 0
                                         THEN gather(ArpCount(arp_ips))
                                         ELSE gather(FallbackCount(arp_ips))]
   /\ UNCHANGED <<status, fan_vars, tracker_vars, flow_vars, class_vars, tasks, wire>>

\* the first step of a probe: to CoAPClient.create when the limiter admits
\* it, to the limiter's queue otherwise
FirstStep ==
   /\ scan.phase \in {"arp", "fallback"}
   /\ Steps(scan, Created, FALSE)
   /\ scan' = acquire(scan)
   /\ UNCHANGED <<status, fan_vars, tracker_vars, flow_vars, class_vars, tasks, wire>>

\* a probe that was handed a permit resumes: it leaves the queue, wakes the
\* next waiter when the value is above 0, and calls CoAPClient.create
WokenResumes ==
   /\ scan.phase \in {"arp", "fallback"}
   /\ Steps(scan, Woken, FALSE)
   /\ LET entered == move(scan, Woken, AtCreate)
          woken == IF entered.semaphore > 0 THEN _wake_up_next(entered) ELSE entered
      IN  /\ woken.probes[Woken] <= MaxWoken
          /\ scan' = woken
   /\ UNCHANGED <<status, fan_vars, tracker_vars, flow_vars, class_vars, tasks, wire>>

\* a probe outside the limiter is resumed with CancelledError, which it does
\* not catch there: its task was cancelled before it started, while it
\* waited, or after it was handed a permit; the last gives the permit back
ProbeCancelled ==
   /\ scan.phase \in {"arp", "fallback"}
   /\ \E at \in Outside : \E marked \in BOOLEAN :
         /\ Steps(scan, at, marked)
         /\ ~marked => scan.cancelled < MaxCancelled
         /\ LET ended == move(deliver_cancel(scan, at, marked), at, Propagated)
                left == IF at = Woken THEN release(ended) ELSE ended
            IN  /\ left.probes[Woken] <= MaxWoken
                /\ scan' = [left EXCEPT !.cancelled = IF marked THEN @ ELSE @ + 1]
   /\ UNCHANGED <<status, fan_vars, tracker_vars, flow_vars, class_vars, tasks, wire>>

\* an await of one probe ends and the probe runs to its next await or to its
\* end; a probe that returns or raises releases the limiter.  The loop runs
\* the first step of every probe of the phase before it resumes a probe
\* whose await has ended.  A probe whose task was cancelled gets
\* CancelledError, or what the awaited call ended with when that had ended
\* already (asyncio.wait_for)
ProbeStep ==
   /\ scan.phase \in {"arp", "fallback"}
   /\ scan.probes[Created] = 0
   /\ \E at \in Inside : \E marked \in BOOLEAN : \E outcome \in AwaitOutcomes(at) :
         /\ Steps(scan, at, marked)
         /\ outcome = "client" => scan.clients < MaxClients
         /\ outcome = "status" => scan.answered < MaxDevices
         /\ (outcome = "CancelledError" /\ ~marked) => scan.cancelled < MaxCancelled
         /\ LET next == _check_single_ip(at, outcome)
                moved == move(deliver_cancel(scan, at, marked), at, next)
                left == IF next \in Inside THEN moved ELSE release(moved)
            IN  /\ left.probes[Woken] <= MaxWoken
                /\ scan' = [left EXCEPT
                              !.clients = IF outcome = "client" THEN @ + 1 ELSE @,
                              !.answered = IF outcome = "status" THEN @ + 1 ELSE @,
                              !.cancelled = IF outcome = "CancelledError" /\ ~marked
                                            THEN @ + 1 ELSE @,
                              !.lost = IF at = AtShutdownFound /\ next # ReturnedDict
                                       THEN @ + 1 ELSE @,
                              !.failed = @ \/ outcome \in {"unreadable", "TimeoutError",
                                                            "Exception"},
                              !.unclosed = IF next \notin Inside /\ HoldsOpenClient(at)
                                           THEN @ + 1 ELSE @]
   /\ UNCHANGED <<status, fan_vars, tracker_vars, flow_vars, class_vars, tasks, wire>>

\* every probe has ended and the scan resumes from gather(return_exceptions=
\* True): a cancelled scan raises CancelledError; otherwise the dicts among
\* the results are the devices found, and with none found after the ARP phase
\* the probes of the fallback range are gathered
GatherReturns ==
   /\ scan.phase \in {"arp", "fallback"}
   /\ LiveCount(scan.probes) = 0
   /\ scan' = IF scan.cancel_requested
              THEN [scan EXCEPT !.phase = "raise CancelledError"]
              ELSE IF scan.phase = "arp" /\ scan.probes[ReturnedDict] = 0
              THEN [scan EXCEPT !.phase = "fallback",
                                !.probes = gather(FallbackCount(scan.arp_ips))]
              ELSE [scan EXCEPT !.phase = "complete",
                                !.found_devices = scan.probes[ReturnedDict]]
   /\ UNCHANGED <<status, fan_vars, tracker_vars, flow_vars, class_vars, tasks, wire>>

NextScan ==
   \/ StartScan
   \/ CancelScan
   \/ PingSweepReturns
   \/ FirstStep
   \/ WokenResumes
   \/ ProbeCancelled
   \/ ProbeStep
   \/ GatherReturns

SpecScan == InitScan /\ [][NextScan]_vars

-----------------------------------------------------------------------------
(* The probes of a scan (C22) *)

\* the scan has gathered probes
Probing ==
   LiveCount(scan.probes) + scan.probes[ReturnedDict] + scan.probes[ReturnedNone]
      + scan.probes[Propagated] > 0

=============================================================================
